---- MODULE Spec2Model ----
(***************************************************************************)
(* Transcript reconstruction engine of src/text_processor.py               *)
(* (class TextPostProcessor).                                              *)
(*                                                                         *)
(* A Python str is a sequence of characters; a character is a one-element  *)
(* string.  ASCII characters are written as themselves.  A CJK ideograph   *)
(* or a full-width mark is written by its code point: "U7136" is U+7136.   *)
(* Positions are Python positions (0-based): the character at position p   *)
(* of s is s[p + 1], and the slice s[a:b] is SubSeq(s, a + 1, b).          *)
(***************************************************************************)
EXTENDS Integers, Sequences, FiniteSets, TLC

VARIABLES
    pc,          \* "start", or the name of the call that has returned
    text,        \* the text argument (a sequence of characters)
    textIsNone,  \* TRUE when the text argument is None
    title,       \* the title argument
    language,    \* the language argument: "zh", "en" or "auto"
    segments,    \* the segments argument: a sequence of [text, start, end]
    sentence,    \* the sentence handed to _add_sentence_punctuation
    punctuated,  \* what the successive punctuation calls returned
    candidates,  \* the list returned by _split_sentences_improved
    detected,    \* the value returned by _detect_language
    formatted,   \* the str returned by add_punctuation
    entries,     \* processed_sentences or formatted_sentences of the call
    stamped,     \* what the segment loop appended, with each sentence_start
    result,      \* the dict returned by a format_transcript* call
    processor,   \* the fields of the TextPostProcessor the calls are made on
    calls,       \* the calls in progress on it, one for each thread
    cursor       \* current_pos of the marker scan in progress

vars == << pc, text, textIsNone, title, language, segments, sentence,
           punctuated, candidates, detected, formatted, entries, stamped,
           result, processor, calls, cursor >>

----------------------------------------------------------------------------
(* Character classes of Python's str methods and of the re module.         *)

\* the whitespace of str.strip(), str.split() and the regex class \s
IsSpace(c) == c \in {" ", "\t", "\n"}

\* the range U+4E00..U+9FFF of _detect_language, restricted to the
\* ideographs that occur in the lexicons and in the inputs of this model
CJKChars ==
    { "U4E00", "U4E0D", "U4E14", "U4E2A", "U4E3A", "U4E48", "U4E4B", "U4E8E",
      "U4EC0", "U4EE5", "U4EEC", "U4F46", "U4F60", "U5148", "U5176", "U518D",
      "U51E0", "U529F", "U53E6", "U53EF", "U540E", "U5417", "U5427", "U5443",
      "U5462", "U54C7", "U54E6", "U54EA", "U554A", "U55EF", "U56E0", "U5916",
      "U591A", "U592A", "U597D", "U5C11", "U5C31", "U5E38", "U5F88", "U5F97",
      "U600E", "U603B", "U6211", "U6240", "U63A5", "U6539", "U662F", "U6700",
      "U6765", "U6B21", "U6B64", "U6D4B", "U7136", "U771F", "U7740", "U7EE7",
      "U7EED", "U800C", "U80FD", "U89C9", "U8BD5", "U8BF4", "U8C01", "U8FC7",
      "U8FD9", "U8FDB", "U90A3", "U91CC", "U9519", "U975E", "U989D", "U9996" }

IsCJK(c) == c \in CJKChars

LowerLetters ==
    { "a", "b", "c", "d", "e", "f", "g", "h", "i", "j", "k", "l", "m",
      "n", "o", "p", "q", "r", "s", "t", "u", "v", "w", "x", "y", "z" }

UpperLetters == { "H", "I", "S", "T", "U", "W" }

Digits == { "0", "1", "2", "3", "4", "5", "6", "7", "8", "9" }

\* the regex class \w on str patterns: letters, digits, underscore,
\* ideographs
IsWordChar(c) ==
    c \in LowerLetters \cup UpperLetters \cup Digits \cup {"_"} \cup CJKChars

\* str.lower() on one character
Lower(c) ==
    CASE c = "H" -> "h"
      [] c = "I" -> "i"
      [] c = "S" -> "s"
      [] c = "T" -> "t"
      [] c = "U" -> "u"
      [] c = "W" -> "w"
      [] OTHER -> c

\* str.lower()
LowerStr(s) == [i \in 1..Len(s) |-> Lower(s[i])]

----------------------------------------------------------------------------
(* str methods.                                                            *)

\* s[a:b] for 0 <= a, b <= len(s)
Slice(s, a, b) == SubSeq(s, a + 1, b)

RECURSIVE SkipSpaces(_, _)
\* the first position >= p that holds no whitespace, or len(s)
SkipSpaces(s, p) ==
    IF p < Len(s) /\ IsSpace(s[p + 1]) THEN SkipSpaces(s, p + 1) ELSE p

RECURSIVE SkipSpacesBack(_, _)
\* the least e <= p such that s[e:p] is whitespace
SkipSpacesBack(s, p) ==
    IF p > 0 /\ IsSpace(s[p]) THEN SkipSpacesBack(s, p - 1) ELSE p

RECURSIVE SkipNonSpaces(_, _)
\* the first position >= p that holds whitespace, or len(s)
SkipNonSpaces(s, p) ==
    IF p < Len(s) /\ ~IsSpace(s[p + 1]) THEN SkipNonSpaces(s, p + 1) ELSE p

\* s[a:b] is whitespace only
AllSpace(s, a, b) == \A k \in (a + 1)..b : IsSpace(s[k])

\* str.strip()
Strip(s) ==
    LET a == SkipSpaces(s, 0)
        b == SkipSpacesBack(s, Len(s))
    IN  IF a >= b THEN << >> ELSE Slice(s, a, b)

\* "not text or not text.strip()" for a str
IsBlank(s) == Strip(s) = << >>

\* the positions 1..len(s) in increasing order
Indices(s) == [i \in 1..Len(s) |-> i]

\* the least element of a non-empty set of integers
Min(S) == CHOOSE x \in S : \A y \in S : x <= y

\* str.split() without argument: the maximal runs of non-whitespace
SplitWS(s) ==
    LET TokenStart(i) == ~IsSpace(s[i]) /\ (i = 1 \/ IsSpace(s[i - 1]))
        starts == SelectSeq(Indices(s), TokenStart)
    IN  [k \in 1..Len(starts) |->
            Slice(s, starts[k] - 1, SkipNonSpaces(s, starts[k] - 1))]

\* the string w stands at position p of s
MatchAt(s, w, p) ==
    /\ p >= 0
    /\ p + Len(w) <= Len(s)
    /\ \A k \in 1..Len(w) : s[p + k] = w[k]

\* str.find(w, start): the lowest position >= start where w stands, or -1
Find(s, w, start) ==
    LET hits == {p \in start..(Len(s) - Len(w)) : MatchAt(s, w, p)}
    IN  IF hits = {} THEN -1 ELSE Min(hits)

\* "w in s"
Contains(s, w) == \E p \in 0..(Len(s) - Len(w)) : MatchAt(s, w, p)

\* str.startswith(w)
StartsWith(s, w) == MatchAt(s, w, 0)

\* str.endswith(w)
EndsWith(s, w) == MatchAt(s, w, Len(s) - Len(w))

\* any(w in s for w in words), words a sequence of strings
ContainsAny(s, words) == \E k \in 1..Len(words) : Contains(s, words[k])

RECURSIVE JoinRange(_, _, _, _)
\* sep.join(parts[lo-1:hi]) for 1 <= lo <= hi <= len(parts)
JoinRange(parts, sep, lo, hi) ==
    IF lo = hi THEN parts[lo]
    ELSE LET mid == (lo + hi) \div 2
         IN  JoinRange(parts, sep, lo, mid) \o sep
                 \o JoinRange(parts, sep, mid + 1, hi)

\* sep.join(parts)
Join(parts, sep) ==
    IF parts = << >> THEN << >> ELSE JoinRange(parts, sep, 1, Len(parts))

\* re.split(r'[...]', s) for a class of single characters: empty parts are
\* kept
SplitChars(s, seps) ==
    LET IsSep(i) == s[i] \in seps
        cuts == SelectSeq(Indices(s), IsSep)
    IN  [k \in 1..(Len(cuts) + 1) |->
            SubSeq(s, IF k = 1 THEN 1 ELSE cuts[k - 1] + 1,
                      IF k > Len(cuts) THEN Len(s) ELSE cuts[k] - 1)]

\* str.split(sep) for a separator that cannot overlap itself
SplitStr(s, sep) ==
    LET IsCut(i) == MatchAt(s, sep, i - 1)
        cuts == SelectSeq(Indices(s), IsCut)
    IN  [k \in 1..(Len(cuts) + 1) |->
            SubSeq(s, IF k = 1 THEN 1 ELSE cuts[k - 1] + Len(sep),
                      IF k > Len(cuts) THEN Len(s) ELSE cuts[k] - 1)]

\* re.sub(r'\s+', ' ', s.strip())
NormalizeSpaces(s) ==
    LET t == Strip(s)
        Keep(i) == ~IsSpace(t[i]) \/ i = 1 \/ ~IsSpace(t[i - 1])
        kept == SelectSeq(Indices(t), Keep)
    IN  [k \in 1..Len(kept) |->
            IF IsSpace(t[kept[k]]) THEN " " ELSE t[kept[k]]]

\* a character that is not whitespace
NotSpace(c) == ~IsSpace(c)

\* re.sub(r'\s+', '', s)
RemoveSpaces(s) == SelectSeq(s, NotSpace)

----------------------------------------------------------------------------
(* _detect_language                                                        *)

\* len(re.findall(r'[U+4E00-U+9FFF]', text))
CountCJK(s) == Len(SelectSeq(s, IsCJK))

\* a mutation of RatioAboveThreshold: the boundary counts as Chinese
RatioAtOrAboveThreshold(chinese_chars, total_chars) ==
    10 * chinese_chars >= 3 * total_chars

\* "chinese_chars / total_chars > 0.3" for total_chars > 0.  The quotient
\* of two counts is the double nearest to the exact ratio and 0.3 is the
\* double nearest to 3/10, so for counts below 2^50 the comparison is the
\* exact one, 10 * chinese_chars > 3 * total_chars.
RatioAboveThreshold(chinese_chars, total_chars) ==
    10 * chinese_chars > 3 * total_chars

\* _detect_language(text)
DetectLanguage(t) ==
    LET chinese_chars == CountCJK(t)
        total_chars == Len(RemoveSpaces(t))
    IN  IF total_chars = 0 THEN "en"
        ELSE IF RatioAboveThreshold(chinese_chars, total_chars) THEN "zh"
        ELSE "en"

----------------------------------------------------------------------------
(* _remove_filler_words                                                    *)

\* One alternative of a filler pattern: the literal word, followed by
\*   "none": nothing more;
\*   "plus": any number of repetitions of the word's last character (um+);
\*   "opt" : at most one repetition of the word's last character (XX?).
Alt(word, rep) == [word |-> word, rep |-> rep]

\* r'\s*(U+55EF U+55EF?|U+554A U+554A?|U+5443|U+989D|U+90A3 U+4E2A|
\*       U+8FD9 U+4E2A)\s*$'
ZhFillerPattern1 ==
    << Alt(<<"U55EF">>, "opt"), Alt(<<"U554A">>, "opt"),
       Alt(<<"U5443">>, "none"), Alt(<<"U989D">>, "none"),
       Alt(<<"U90A3", "U4E2A">>, "none"), Alt(<<"U8FD9", "U4E2A">>, "none") >>

\* r'\s*(U+5C31 U+662F U+8BF4|U+600E U+4E48 U+8BF4|U+90A3 U+4EC0 U+4E48)\s*$'
ZhFillerPattern2 ==
    << Alt(<<"U5C31", "U662F", "U8BF4">>, "none"),
       Alt(<<"U600E", "U4E48", "U8BF4">>, "none"),
       Alt(<<"U90A3", "U4EC0", "U4E48">>, "none") >>

\* r'\s*(um+|uh+|er+|well|you know|I mean)\s*$'
EnFillerPattern ==
    << Alt(<<"u", "m">>, "plus"), Alt(<<"u", "h">>, "plus"),
       Alt(<<"e", "r">>, "plus"), Alt(<<"w", "e", "l", "l">>, "none"),
       Alt(<<"y", "o", "u", " ", "k", "n", "o", "w">>, "none"),
       Alt(<<"I", " ", "m", "e", "a", "n">>, "none") >>

\* the word w stands at position p of s, letter case ignored
\* (flags=re.IGNORECASE)
MatchAtIgnoreCase(s, w, p) ==
    /\ p >= 0
    /\ p + Len(w) <= Len(s)
    /\ \A k \in 1..Len(w) : Lower(s[p + k]) = Lower(w[k])

\* the positions at which a match of the alternative alt that starts at
\* position j of s can end
AltEnds(s, j, alt) ==
    LET w == alt.word
        e0 == j + Len(w)
        last == Lower(w[Len(w)])
    IN  IF ~MatchAtIgnoreCase(s, w, j) THEN {}
        ELSE IF alt.rep = "none" THEN {e0}
        ELSE IF alt.rep = "opt"
             THEN {e0} \cup (IF e0 < Len(s) /\ Lower(s[e0 + 1]) = last
                             THEN {e0 + 1} ELSE {})
        ELSE {e \in e0..Len(s) : \A k \in (e0 + 1)..e : Lower(s[k]) = last}

\* r'\s*(alternatives)\s*$' matches s from position i on
PatternMatchesFrom(s, i, alts) ==
    \E j \in i..SkipSpaces(s, i) :
        \E a \in 1..Len(alts) :
            \E e \in AltEnds(s, j, alts[a]) : AllSpace(s, e, Len(s))

\* re.sub(pattern, '', s, flags=re.IGNORECASE): the leftmost match runs to
\* the end of s and is removed
RemoveTrailing(s, alts) ==
    LET starts == {i \in 0..Len(s) : PatternMatchesFrom(s, i, alts)}
    IN  IF starts = {} THEN s
        ELSE Slice(s, 0, CHOOSE i \in starts : \A k \in starts : i <= k)

\* a mutation of RemoveFillerWords: nothing but the trimming is done
RemoveFillerWordsNone(s, lang) == Strip(s)

RemoveFillerWords(s, lang) ==
    IF lang = "zh"
    THEN Strip(RemoveTrailing(RemoveTrailing(s, ZhFillerPattern1),
                              ZhFillerPattern2))
    ELSE Strip(RemoveTrailing(s, EnFillerPattern))

----------------------------------------------------------------------------
(* _add_sentence_punctuation                                               *)

ZhPeriod == <<"U3002">>
ZhExclamation == <<"UFF01">>
ZhQuestion == <<"UFF1F">>
EnPeriod == <<".">>
EnExclamation == <<"!">>
EnQuestion == <<"?">>

\* the terminal marks of a language, as characters
TerminalMarks(lang) ==
    IF lang = "zh" THEN {"U3002", "UFF01", "UFF1F"} ELSE {".", "!", "?"}

ZhQuestionWords ==
    << <<"U4EC0", "U4E48">>, <<"U600E", "U4E48">>,
       <<"U4E3A", "U4EC0", "U4E48">>, <<"U54EA", "U91CC">>,
       <<"U54EA", "U4E2A">>, <<"U8C01">>, <<"U51E0">>,
       <<"U591A", "U5C11">>, <<"U5417">>, <<"U5462">> >>

ZhExclamationWords ==
    << <<"U592A">>, <<"U771F">>, <<"U597D">>, <<"U54C7">>, <<"U554A">>,
       <<"U591A", "U4E48">>, <<"U975E", "U5E38">> >>

EnQuestionStarts ==
    << <<"w", "h", "a", "t">>, <<"h", "o", "w">>, <<"w", "h", "y">>,
       <<"w", "h", "e", "r", "e">>, <<"w", "h", "o">>,
       <<"w", "h", "e", "n">>, <<"w", "h", "i", "c", "h">> >>

EnQuestionAuxiliaries ==
    << <<"d", "o">>, <<"d", "o", "e", "s">>, <<"d", "i", "d">>,
       <<"i", "s">>, <<"a", "r", "e">>, <<"w", "a", "s">>,
       <<"w", "e", "r", "e">>, <<"c", "a", "n">>,
       <<"c", "o", "u", "l", "d">>, <<"w", "o", "u", "l", "d">>,
       <<"s", "h", "o", "u", "l", "d">> >>

EnExclamationWords ==
    << <<"s", "o">>, <<"s", "u", "c", "h">>,
       <<"w", "h", "a", "t", " ", "a">>, <<"w", "o", "w">>, <<"o", "h">>,
       <<"a", "m", "a", "z", "i", "n", "g">>,
       <<"w", "o", "n", "d", "e", "r", "f", "u", "l">> >>

\* a mutation of IsQuestion: the auxiliaries of the English branch are not
\* looked for
IsQuestionByStart(s, lang) ==
    IF lang = "zh" THEN ContainsAny(s, ZhQuestionWords)
    ELSE \E k \in 1..Len(EnQuestionStarts) :
             StartsWith(LowerStr(s), EnQuestionStarts[k])

\* the question test of the language's branch
IsQuestion(s, lang) ==
    IF lang = "zh" THEN ContainsAny(s, ZhQuestionWords)
    ELSE LET sentence_lower == LowerStr(s)
         IN  \/ \E k \in 1..Len(EnQuestionStarts) :
                    StartsWith(sentence_lower, EnQuestionStarts[k])
             \/ \E k \in 1..Len(EnQuestionAuxiliaries) :
                    Contains(sentence_lower,
                             <<" ">> \o EnQuestionAuxiliaries[k] \o <<" ">>)

\* the exclamation test of the language's branch
IsExclamation(s, lang) ==
    IF lang = "zh" THEN ContainsAny(s, ZhExclamationWords)
    ELSE ContainsAny(LowerStr(s), EnExclamationWords)

\* a mutation of AddSentencePunctuation: the class's mark is appended
\* without looking at the end of the sentence
AddSentencePunctuationAlways(s, lang) ==
    IF s = << >> THEN s
    ELSE LET stripped == RemoveFillerWords(s, lang)
             zh == lang = "zh"
         IN  IF stripped = << >> THEN << >>
             ELSE IF IsQuestion(stripped, lang)
                  THEN stripped \o (IF zh THEN ZhQuestion ELSE EnQuestion)
             ELSE IF IsExclamation(stripped, lang)
                  THEN stripped
                           \o (IF zh THEN ZhExclamation ELSE EnExclamation)
             ELSE stripped \o (IF zh THEN ZhPeriod ELSE EnPeriod)

AddSentencePunctuation(s, lang) ==
    IF s = << >> THEN s
    ELSE LET stripped == RemoveFillerWords(s, lang)
             zh == lang = "zh"
             question == IF zh THEN ZhQuestion ELSE EnQuestion
             exclamation == IF zh THEN ZhExclamation ELSE EnExclamation
             period == IF zh THEN ZhPeriod ELSE EnPeriod
         IN  IF stripped = << >> THEN << >>
             ELSE IF IsQuestion(stripped, lang)
                  THEN IF ~EndsWith(stripped, question)
                       THEN stripped \o question ELSE stripped
             ELSE IF IsExclamation(stripped, lang)
                  THEN IF ~EndsWith(stripped, exclamation)
                       THEN stripped \o exclamation ELSE stripped
             ELSE IF ~(\/ EndsWith(stripped, period)
                       \/ EndsWith(stripped, exclamation)
                       \/ EndsWith(stripped, question))
                  THEN stripped \o period ELSE stripped

----------------------------------------------------------------------------
(* _clean_text                                                             *)

RECURSIVE SkipWordChars(_, _)
\* the first position >= p that holds no \w character, or len(s)
SkipWordChars(s, p) ==
    IF p < Len(s) /\ IsWordChar(s[p + 1]) THEN SkipWordChars(s, p + 1)
    ELSE p

\* the regex assertion \b at position p of s
WordBoundary(s, p) ==
    (p > 0 /\ IsWordChar(s[p])) # (p < Len(s) /\ IsWordChar(s[p + 1]))

\* the end of the match of r'\b(\w+)\s+\1\b' that starts at position p of
\* s, or -1.  The group is the whole run of \w characters at p (a shorter
\* one is not followed by whitespace) and \s+ is the whole run of
\* whitespace after it (the group does not start with whitespace).
RepeatedWordEnd(s, p) ==
    LET q == SkipWordChars(s, p)
        r == SkipSpaces(s, q)
        e == r + (q - p)
    IN  IF /\ q > p
           /\ WordBoundary(s, p)
           /\ r > q
           /\ MatchAt(s, Slice(s, p, q), r)
           /\ WordBoundary(s, e)
        THEN e ELSE -1

RECURSIVE TakenFrom(_, _, _, _)
\* the matches re.sub takes among the candidate starts cands[k..], none
\* of them starting before position from: matches are taken left to right
\* and do not overlap
TakenFrom(s, cands, k, from) ==
    IF k > Len(cands) THEN {}
    ELSE IF cands[k] >= from
         THEN {cands[k]}
                  \cup TakenFrom(s, cands, k + 1, RepeatedWordEnd(s, cands[k]))
         ELSE TakenFrom(s, cands, k + 1, from)

\* re.sub(r'\b(\w+)\s+\1\b', r'\1', s): of every match taken, the group
\* stays and the whitespace and the repetition go
RemoveRepeated(s) ==
    LET IsCand(i) == RepeatedWordEnd(s, i - 1) # -1
        starts == SelectSeq(Indices(s), IsCand)
        cands == [k \in 1..Len(starts) |-> starts[k] - 1]
        taken == TakenFrom(s, cands, 1, 0)
        Stays(i) ==
            \A p \in taken :
                ~(SkipWordChars(s, p) < i /\ i <= RepeatedWordEnd(s, p))
        kept == SelectSeq(Indices(s), Stays)
    IN  [k \in 1..Len(kept) |-> s[kept[k]]]

\* a mutation of CleanText: repeated words are kept
CleanTextKeepRepeats(t) == NormalizeSpaces(t)

CleanText(t) == RemoveRepeated(NormalizeSpaces(t))

----------------------------------------------------------------------------
(* _split_sentences: the splitter format_transcript counts sentences with  *)

\* word.endswith((U+5427, U+5462, U+554A, U+54E6))
OldZhEndings == << <<"U5427">>, <<"U5462">>, <<"U554A">>, <<"U54E6">> >>

OldZhWords ==
    << <<"U7136", "U540E">>, <<"U6240", "U4EE5">>, <<"U56E0", "U4E3A">>,
       <<"U4F46", "U662F">>, <<"U4E0D", "U8FC7">>, <<"U800C", "U4E14">> >>

OldEnWords ==
    << <<"a", "n", "d">>, <<"b", "u", "t">>, <<"s", "o">>,
       <<"t", "h", "e", "n">>, <<"h", "o", "w", "e", "v", "e", "r">>,
       <<"t", "h", "e", "r", "e", "f", "o", "r", "e">>,
       <<"b", "e", "c", "a", "u", "s", "e">>,
       <<"a", "l", "t", "h", "o", "u", "g", "h">>,
       <<"w", "h", "i", "l", "e">>, <<"y", "e", "a", "h">>,
       <<"w", "e", "l", "l">>, <<"o", "k", "a", "y">> >>

\* "x in xs" for a list xs
InList(x, xs) == \E k \in 1..Len(xs) : xs[k] = x

RECURSIVE OldSplitZhWords(_, _, _, _)
\* the loop over words of the Chinese branch, from the k-th word on, with
\* current_sentence and sub_parts as they stand
OldSplitZhWords(words, k, current_sentence, sub_parts) ==
    IF k > Len(words)
    THEN IF current_sentence # << >>
         THEN Append(sub_parts, Join(current_sentence, <<" ">>))
         ELSE sub_parts
    ELSE LET word == words[k]
             cur == Append(current_sentence, word)
         IN  IF /\ \/ \E j \in 1..Len(OldZhEndings) :
                          EndsWith(word, OldZhEndings[j])
                    \/ InList(word, OldZhWords)
                /\ Len(cur) > 2
             THEN OldSplitZhWords(words, k + 1, << >>,
                                  Append(sub_parts, Join(cur, <<" ">>)))
             ELSE OldSplitZhWords(words, k + 1, cur, sub_parts)

RECURSIVE OldSplitEnWords(_, _, _, _)
\* the loop over words of the English branch
OldSplitEnWords(words, k, current_sentence, sub_parts) ==
    IF k > Len(words)
    THEN IF current_sentence # << >>
         THEN Append(sub_parts, Join(current_sentence, <<" ">>))
         ELSE sub_parts
    ELSE LET word == words[k]
             cur == Append(current_sentence, word)
         IN  IF InList(LowerStr(word), OldEnWords) /\ Len(cur) > 3
             THEN OldSplitEnWords(words, k + 1, << word >>,
                      Append(sub_parts,
                             Join(SubSeq(cur, 1, Len(cur) - 1), <<" ">>)))
             ELSE OldSplitEnWords(words, k + 1, cur, sub_parts)

\* [s.strip() for s in sub_parts if len(s.strip()) > n]
StripLongerThan(parts, n) ==
    LET stripped == [k \in 1..Len(parts) |-> Strip(parts[k])]
        Long(s) == Len(s) > n
    IN  SelectSeq(stripped, Long)

RECURSIVE OldSplitParts(_, _, _)
\* the loop over the parts between terminal marks, from the k-th part on
OldSplitParts(parts, k, lang) ==
    IF k > Len(parts) THEN << >>
    ELSE IF Strip(parts[k]) = << >> THEN OldSplitParts(parts, k + 1, lang)
    ELSE LET words == SplitWS(Strip(parts[k]))
             sub_parts == IF lang = "zh"
                          THEN OldSplitZhWords(words, 1, << >>, << >>)
                          ELSE OldSplitEnWords(words, 1, << >>, << >>)
         IN  StripLongerThan(sub_parts, 5) \o OldSplitParts(parts, k + 1, lang)

SplitSentences(t, lang) ==
    LET parts == IF lang = "zh"
                 THEN SplitChars(t, {"U3002", "UFF01", "UFF1F"})
                 ELSE SplitChars(t, {".", "!", "?"})
    IN  StripLongerThan(OldSplitParts(parts, 1, lang), 3)

----------------------------------------------------------------------------
(* _split_chinese_improved                                                 *)

\* split_words of _split_chinese_improved
ZhSplitWords ==
    << <<"U7136", "U540E">>, <<"U63A5", "U7740">>, <<"U540E", "U6765">>,
       <<"U4E8E", "U662F">>, <<"U6240", "U4EE5">>, <<"U56E0", "U6B64">>,
       <<"U4F46", "U662F">>, <<"U4E0D", "U8FC7">>, <<"U800C", "U4E14">>,
       <<"U53E6", "U5916">>, <<"U9996", "U5148">>, <<"U5176", "U6B21">>,
       <<"U518D", "U6B21">>, <<"U6700", "U540E">>, <<"U603B", "U4E4B">>,
       <<"U6B64", "U5916">> >>

\* "len(sentence) > 6"
ZhMinLength == 6

\* "len(chars) > 40"
ZhForceSplitLength == 40

\* "range(mid-5, mid+5)"
ZhMidWindow == 5

RECURSIVE ZhFindSplitAtCursor(_, _, _, _, _)
\* a mutation of ZhFindSplit: a marker at current_pos itself is taken
ZhFindSplitAtCursor(t, current_pos, k, next_split_pos, found) ==
    IF k > Len(ZhSplitWords)
    THEN [next_split_pos |-> next_split_pos, found |-> found]
    ELSE LET pos == Find(t, ZhSplitWords[k], current_pos)
         IN  IF /\ pos >= current_pos
                /\ pos < next_split_pos
                /\ (pos = 0 \/ t[pos] = " ")
             THEN ZhFindSplitAtCursor(t, current_pos, k + 1, pos, k)
             ELSE ZhFindSplitAtCursor(t, current_pos, k + 1, next_split_pos,
                                      found)

RECURSIVE ZhFindSplit(_, _, _, _, _)
\* the loop "for word in split_words" from the k-th word on; found is the
\* index of found_word in split_words, 0 for None
ZhFindSplit(t, current_pos, k, next_split_pos, found) ==
    IF k > Len(ZhSplitWords)
    THEN [next_split_pos |-> next_split_pos, found |-> found]
    ELSE LET pos == Find(t, ZhSplitWords[k], current_pos)
         IN  IF /\ pos > current_pos
                /\ pos < next_split_pos
                /\ (pos = 0 \/ t[pos] = " ")
             THEN ZhFindSplit(t, current_pos, k + 1, pos, k)
             ELSE ZhFindSplit(t, current_pos, k + 1, next_split_pos, found)

\* "sentence and len(sentence) > 6"
ZhKeep(s) == s # << >> /\ Len(s) > ZhMinLength

\* a mutation of ZhScanStepFound: the span is taken from the start of the
\* text
ZhScanStepFoundFromStart(t, current_pos, sentences, f) ==
    IF f.found # 0
    THEN LET s == Strip(Slice(t, 0, f.next_split_pos))
         IN  [current_pos |-> f.next_split_pos,
              sentences |-> IF ZhKeep(s) THEN Append(sentences, s)
                            ELSE sentences,
              break |-> FALSE]
    ELSE LET remaining == Strip(Slice(t, current_pos, Len(t)))
         IN  [current_pos |-> current_pos,
              sentences |-> IF ZhKeep(remaining)
                            THEN Append(sentences, remaining)
                            ELSE sentences,
              break |-> TRUE]

\* "if found_word: ... else: ... break" for the outcome f of the loop over
\* split_words: the new current_pos and sentences, and whether the loop
\* was left by break
ZhScanStepFound(t, current_pos, sentences, f) ==
    IF f.found # 0
    THEN LET s == Strip(Slice(t, current_pos, f.next_split_pos))
         IN  [current_pos |-> f.next_split_pos,
              sentences |-> IF ZhKeep(s) THEN Append(sentences, s)
                            ELSE sentences,
              break |-> FALSE]
    ELSE LET remaining == Strip(Slice(t, current_pos, Len(t)))
         IN  [current_pos |-> current_pos,
              sentences |-> IF ZhKeep(remaining)
                            THEN Append(sentences, remaining)
                            ELSE sentences,
              break |-> TRUE]

\* one iteration of "while current_pos < len(text)"; the loop over
\* split_words is run once
ZhScanStep(t, current_pos, sentences) ==
    CHOOSE st \in { ZhScanStepFound(t, current_pos, sentences, f) :
                      f \in { ZhFindSplit(t, current_pos, 1, Len(t), 0) } } :
        TRUE

RECURSIVE ZhScan(_, _, _)
\* the while loop from current_pos on
ZhScan(t, current_pos, sentences) ==
    IF ~(current_pos < Len(t)) THEN sentences
    ELSE LET st == ZhScanStep(t, current_pos, sentences)
         IN  IF st.break THEN st.sentences
             ELSE ZhScan(t, st.current_pos, st.sentences)

\* the forced split of a text without comma
ZhForceSplit(t) ==
    IF Len(t) > ZhForceSplitLength
    THEN LET mid == Len(t) \div 2
             hits == {i \in (mid - ZhMidWindow)..(mid + ZhMidWindow - 1) :
                          i >= 0 /\ i < Len(t) /\ t[i + 1] = " "}
         IN  IF hits # {}
             THEN LET i == CHOOSE h \in hits : \A g \in hits : h <= g
                  IN  << Strip(Slice(t, 0, i)), Strip(Slice(t, i, Len(t))) >>
             ELSE << Strip(t) >>
    ELSE << Strip(t) >>

\* a mutation of ZhFallback: the commas are not looked at
ZhFallbackWithoutCommas(t) == ZhForceSplit(t)

\* "if not sentences and text.strip()": the comma split, else the forced
\* split
ZhFallback(t) ==
    LET parts == SplitChars(t, {"UFF0C", ","})
    IN  IF Len(parts) > 1 THEN StripLongerThan(parts, ZhMinLength)
        ELSE ZhForceSplit(t)

SplitChineseImproved(t) ==
    LET scanned == ZhScan(t, 0, << >>)
        sentences == IF scanned = << >> /\ Strip(t) # << >>
                     THEN ZhFallback(t) ELSE scanned
    IN  SelectSeq(sentences, ZhKeep)

----------------------------------------------------------------------------
(* _split_english_improved                                                 *)

\* split_words of _split_english_improved
EnSplitWords ==
    << <<"t", "h", "e", "n">>, <<"n", "e", "x", "t">>,
       <<"a", "f", "t", "e", "r">>, <<"s", "o">>,
       <<"t", "h", "e", "r", "e", "f", "o", "r", "e">>, <<"b", "u", "t">>,
       <<"h", "o", "w", "e", "v", "e", "r">>,
       <<"a", "n", "d", " ", "t", "h", "e", "n">>, <<"a", "l", "s", "o">>,
       <<"f", "i", "r", "s", "t">>, <<"s", "e", "c", "o", "n", "d">>,
       <<"t", "h", "i", "r", "d">>, <<"f", "i", "n", "a", "l", "l", "y">>,
       <<"l", "a", "s", "t", "l", "y">>,
       <<"m", "e", "a", "n", "w", "h", "i", "l", "e">> >>

\* "len(sentence.split()) > 4"
EnMinWords == 4

\* "len(words) > 20"
EnForceSplitWords == 20

\* "len(current_sentence) > 15"
EnChunkWords == 15

\* r'\b' + word + r'\b' matches the slice s[from:] at position p of s
WordMatchAt(s, w, from, p) ==
    /\ MatchAt(s, w, p)
    /\ (p > from /\ IsWordChar(s[p])) # IsWordChar(w[1])
    /\ IsWordChar(w[Len(w)])
           # (p + Len(w) < Len(s) /\ IsWordChar(s[p + Len(w) + 1]))

\* current_pos + re.search(r'\bword\b', text_lower[current_pos:]).start(),
\* or -1 when there is no match
WordSearch(s, w, from) ==
    LET hits == {p \in from..(Len(s) - Len(w)) : WordMatchAt(s, w, from, p)}
    IN  IF hits = {} THEN -1 ELSE Min(hits)

RECURSIVE EnFindSplit(_, _, _, _, _)
\* the loop "for word in split_words" from the k-th word on
EnFindSplit(text_lower, current_pos, k, next_split, found) ==
    IF k > Len(EnSplitWords)
    THEN [next_split |-> next_split, found |-> found]
    ELSE LET pos == WordSearch(text_lower, EnSplitWords[k], current_pos)
         IN  IF pos # -1 /\ pos > current_pos /\ pos < next_split
             THEN EnFindSplit(text_lower, current_pos, k + 1, pos, k)
             ELSE EnFindSplit(text_lower, current_pos, k + 1, next_split,
                              found)

\* "len(sentence.split()) > 4"
EnKeep(s) == Len(SplitWS(s)) > EnMinWords

\* "if split_word_found: ... else: ... break" for the outcome f of the loop
\* over split_words
EnScanStepFound(t, current_pos, sentences, f) ==
    IF f.found # 0
    THEN LET s == Strip(Slice(t, current_pos, f.next_split))
         IN  [current_pos |-> f.next_split,
              sentences |-> IF EnKeep(s) THEN Append(sentences, s)
                            ELSE sentences,
              break |-> FALSE]
    ELSE LET s == Strip(Slice(t, current_pos, Len(t)))
         IN  [current_pos |-> current_pos,
              sentences |-> IF EnKeep(s) THEN Append(sentences, s)
                            ELSE sentences,
              break |-> TRUE]

\* one iteration of "while current_pos < text_len"; the loop over
\* split_words is run once
EnScanStep(t, current_pos, sentences) ==
    CHOOSE st \in { EnScanStepFound(t, current_pos, sentences, f) :
                      f \in { EnFindSplit(LowerStr(t), current_pos, 1,
                                          Len(t), 0) } } :
        TRUE

RECURSIVE EnScan(_, _, _)
\* the while loop from current_pos on
EnScan(t, current_pos, sentences) ==
    IF ~(current_pos < Len(t)) THEN sentences
    ELSE LET st == EnScanStep(t, current_pos, sentences)
         IN  IF st.break THEN st.sentences
             ELSE EnScan(t, st.current_pos, st.sentences)

\* the loop "for word in words" of the forced split: current_sentence is
\* emitted each time it holds more than 15 words, and what is left after
\* the last word is emitted too, so the k-th sentence is the k-th run of
\* 16 words
EnChunks(words) ==
    LET size == EnChunkWords + 1
        count == (Len(words) + size - 1) \div size
        Last(k) == IF k * size < Len(words) THEN k * size ELSE Len(words)
    IN  [k \in 1..count |->
            Join(SubSeq(words, (k - 1) * size + 1, Last(k)), <<" ">>)]

\* "if not sentences and text.strip()": the forced split
EnFallback(t) ==
    LET words == SplitWS(t)
    IN  IF Len(words) > EnForceSplitWords
        THEN EnChunks(words)
        ELSE << Strip(t) >>

SplitEnglishImproved(t) ==
    LET scanned == EnScan(t, 0, << >>)
    IN  IF scanned = << >> /\ Strip(t) # << >> THEN EnFallback(t)
        ELSE scanned

----------------------------------------------------------------------------
(* _split_sentences_improved and add_punctuation                           *)

SplitSentencesImproved(t, lang) ==
    IF IsBlank(t) THEN << >>
    ELSE IF lang = "zh" THEN SplitChineseImproved(NormalizeSpaces(t))
    ELSE SplitEnglishImproved(NormalizeSpaces(t))

\* a str that is not empty
NonEmpty(s) == s # << >>

\* the loop "for sentence in sentences" of add_punctuation: the list
\* processed_sentences (a blank sentence is skipped, an empty
\* processed_sentence is not appended)
PunctuateAll(sentences, lang) ==
    SelectSeq([k \in 1..Len(sentences) |->
                  AddSentencePunctuation(Strip(sentences[k]), lang)],
              NonEmpty)

\* processed_sentences of add_punctuation for a text that is not blank
ProcessedSentences(t, lang) ==
    LET l == IF lang = "auto" THEN DetectLanguage(t) ELSE lang
    IN  PunctuateAll(SplitSentencesImproved(CleanText(t), l), l)

\* add_punctuation for a text that is not None
AddPunctuation(t, lang) ==
    IF IsBlank(t) THEN t ELSE Join(ProcessedSentences(t, lang), <<"\n">>)

----------------------------------------------------------------------------
(* format_timestamp                                                        *)

DigitChars == << "0", "1", "2", "3", "4", "5", "6", "7", "8", "9" >>

RECURSIVE Decimal(_)
\* the decimal digits of n >= 0
Decimal(n) ==
    IF n < 10 THEN << DigitChars[n + 1] >>
    ELSE Decimal(n \div 10) \o << DigitChars[(n % 10) + 1] >>

\* f"{n:02d}"
Format02d(n) ==
    IF n < 0 THEN <<"-">> \o Decimal(0 - n)
    ELSE IF n < 10 THEN <<"0">> \o Decimal(n)
    ELSE Decimal(n)

\* a mutation of FormatTimestamp: the seconds are rounded to the nearest
FormatTimestampRounded(num, den) ==
    LET whole == (2 * num + den) \div (2 * den)
        hours == whole \div 3600
        minutes == (whole % 3600) \div 60
        seconds == whole % 60
    IN  Format02d(hours) \o <<":">> \o Format02d(minutes) \o <<":">>
            \o Format02d(seconds)

\* format_timestamp(num / den) for den > 0.  A time is kept as an exact
\* fraction of seconds; whole is its integer part, rounded down as // and
\* % round.
FormatTimestamp(num, den) ==
    LET whole == num \div den
        hours == whole \div 3600
        minutes == (whole % 3600) \div 60
        seconds == whole % 60
    IN  Format02d(hours) \o <<":">> \o Format02d(minutes) \o <<":">>
            \o Format02d(seconds)

----------------------------------------------------------------------------
(* _add_paragraphs                                                         *)

\* "len(current_paragraph) >= 4"
ZhParagraphSize == 4

\* "len(current_paragraph) >= 3"
EnParagraphSize == 3

RECURSIVE ZhParagraphs(_, _, _)
\* the loop over sentences of the Chinese branch, from the k-th part on
ZhParagraphs(sentences, k, current_paragraph) ==
    IF k > Len(sentences) THEN << >>
    ELSE IF Strip(sentences[k]) = << >>
         THEN ZhParagraphs(sentences, k + 1, current_paragraph)
    ELSE LET cur == Append(current_paragraph, Strip(sentences[k]))
         IN  IF Len(cur) >= ZhParagraphSize \/ k = Len(sentences)
             THEN << Join(cur, ZhPeriod) \o ZhPeriod >>
                      \o ZhParagraphs(sentences, k + 1, << >>)
             ELSE ZhParagraphs(sentences, k + 1, cur)

RECURSIVE EnParagraphs(_, _, _)
\* the loop over sentences of the English branch, from the k-th part on
EnParagraphs(sentences, k, current_paragraph) ==
    IF k > Len(sentences) THEN << >>
    ELSE IF Strip(sentences[k]) = << >>
         THEN EnParagraphs(sentences, k + 1, current_paragraph)
    ELSE LET cur == Append(current_paragraph, Strip(sentences[k]))
             joined == Join(cur, <<".", " ">>)
             paragraph_text == IF EndsWith(joined, EnPeriod) THEN joined
                               ELSE joined \o EnPeriod
         IN  IF Len(cur) >= EnParagraphSize \/ k = Len(sentences)
             THEN << paragraph_text >> \o EnParagraphs(sentences, k + 1, << >>)
             ELSE EnParagraphs(sentences, k + 1, cur)

AddParagraphs(t, lang) ==
    IF lang = "zh"
    THEN Join(ZhParagraphs(SplitStr(t, ZhPeriod), 1, << >>), <<"\n", "\n">>)
    ELSE Join(EnParagraphs(SplitStr(t, <<".", " ">>), 1, << >>),
              <<"\n", "\n">>)

----------------------------------------------------------------------------
(* format_transcript and format_transcript_with_timestamps                 *)

\* the step labels of processing_applied
StepPunctuation == <<"U6DFB", "U52A0", "U6807", "U70B9", "U7B26", "U53F7">>
StepTimestamps == <<"U6DFB", "U52A0", "U65F6", "U95F4", "U6233">>
StepTitle == <<"U6DFB", "U52A0", "U6807", "U9898">>
StepParagraphs == <<"U6BB5", "U843D", "U5212", "U5206">>

\* "sentence_count > 6"
ParagraphThreshold == 6

\* the title between U+300A and U+300B (Chinese) or between double quotes
QuotedTitle(ttl, lang) ==
    IF lang = "zh" THEN <<"U300A">> \o ttl \o <<"U300B">>
    ELSE <<"\"">> \o ttl \o <<"\"">>

\* "len(text.split()) if language == 'en' else len(re.sub(r'\s+', '', text))"
WordCount(t, lang) ==
    IF lang = "en" THEN Len(SplitWS(t)) ELSE Len(RemoveSpaces(t))

\* a mutation of EmptyResult: the words are counted before the early
\* return
EmptyResultCounted(t, isNone, lang, timestamped) ==
    LET base == [is_none |-> isNone,
                 original_text |-> t,
                 formatted_text |-> t,
                 language |-> lang,
                 sentence_count |-> 0,
                 word_count |-> Len(t),
                 processing_applied |-> << >>]
    IN  IF timestamped THEN base @@ [timestamped_text |-> t] ELSE base

\* the dict returned for a text that is None, empty or blank; a text that
\* is None is kept as the empty text with is_none set
EmptyResult(t, isNone, lang, timestamped) ==
    LET base == [is_none |-> isNone,
                 original_text |-> t,
                 formatted_text |-> t,
                 language |-> lang,
                 sentence_count |-> 0,
                 word_count |-> 0,
                 processing_applied |-> << >>]
    IN  IF timestamped THEN base @@ [timestamped_text |-> t] ELSE base

\* a mutation of TranscriptResult: the title step is logged after the
\* paragraph step
TranscriptResultTitleLoggedLast(t, processed, ttl, lang) ==
    LET punctuated_text == Join(processed, <<"\n">>)
        sentence_count == Len(SplitSentences(punctuated_text, lang))
        titled == IF ttl # << >>
                  THEN QuotedTitle(ttl, lang) \o <<"\n", "\n">>
                           \o punctuated_text
                  ELSE punctuated_text
        paragraphs == sentence_count > ParagraphThreshold
    IN  [is_none |-> FALSE,
         original_text |-> t,
         formatted_text |-> IF paragraphs THEN AddParagraphs(titled, lang)
                            ELSE titled,
         language |-> IF lang = "auto" THEN DetectLanguage(t) ELSE lang,
         sentence_count |-> sentence_count,
         word_count |-> WordCount(t, lang),
         processing_applied |->
             << StepPunctuation >>
                 \o (IF paragraphs THEN << StepParagraphs >> ELSE << >>)
                 \o (IF ttl # << >> THEN << StepTitle >> ELSE << >>)]

\* format_transcript from "processing_steps = []" on, for the list
\* processed_sentences that add_punctuation joins
TranscriptResult(t, processed, ttl, lang) ==
    LET punctuated_text == Join(processed, <<"\n">>)
        sentence_count == Len(SplitSentences(punctuated_text, lang))
        titled == IF ttl # << >>
                  THEN QuotedTitle(ttl, lang) \o <<"\n", "\n">>
                           \o punctuated_text
                  ELSE punctuated_text
        paragraphs == sentence_count > ParagraphThreshold
    IN  [is_none |-> FALSE,
         original_text |-> t,
         formatted_text |-> IF paragraphs THEN AddParagraphs(titled, lang)
                            ELSE titled,
         language |-> IF lang = "auto" THEN DetectLanguage(t) ELSE lang,
         sentence_count |-> sentence_count,
         word_count |-> WordCount(t, lang),
         processing_applied |->
             << StepPunctuation >>
                 \o (IF ttl # << >> THEN << StepTitle >> ELSE << >>)
                 \o (IF paragraphs THEN << StepParagraphs >> ELSE << >>)]

FormatTranscript(t, isNone, ttl, lang) ==
    IF isNone \/ IsBlank(t) THEN EmptyResult(t, isNone, lang, FALSE)
    ELSE TranscriptResult(t, ProcessedSentences(t, lang), ttl, lang)

\* what the loop body appends for the i-th candidate (from 0) of a segment:
\* its start time start + i * duration / max(k, 1), kept as the fraction
\* start_num / start_den, the punctuated sentence and the timestamped line
SentenceEntry(i, start_num, start_den, formatted_sentence) ==
    [index |-> i,
     start_num |-> start_num,
     start_den |-> start_den,
     sentence |-> formatted_sentence,
     line |-> <<"[">> \o FormatTimestamp(start_num, start_den)
                  \o <<"]", " ">> \o formatted_sentence]

\* a mutation of SentenceEntries: the candidates are numbered from 1
SentenceEntriesFromOne(segment, sentences, lang) ==
    LET segment_duration == segment.end - segment.start
        k == IF Len(sentences) > 1 THEN Len(sentences) ELSE 1
        NotBlank(i) == Strip(sentences[i]) # << >>
        kept == SelectSeq(Indices(sentences), NotBlank)
    IN  [j \in 1..Len(kept) |->
            SentenceEntry(kept[j] - 1,
                          segment.start * k + kept[j] * segment_duration,
                          k,
                          AddSentencePunctuation(sentences[kept[j]], lang))]

\* the loop "for i, sentence in enumerate(sentences)" for one segment
SentenceEntries(segment, sentences, lang) ==
    LET segment_duration == segment.end - segment.start
        k == IF Len(sentences) > 1 THEN Len(sentences) ELSE 1
        NotBlank(i) == Strip(sentences[i]) # << >>
        kept == SelectSeq(Indices(sentences), NotBlank)
    IN  [j \in 1..Len(kept) |->
            SentenceEntry(kept[j] - 1,
                          segment.start * k + (kept[j] - 1) * segment_duration,
                          k,
                          AddSentencePunctuation(sentences[kept[j]], lang))]

\* the entries one segment appends to timestamped_sentences and
\* formatted_sentences
SegmentEntries(segment, lang) ==
    IF Strip(segment.text) = << >> THEN << >>
    ELSE SentenceEntries(segment,
                         SplitSentencesImproved(Strip(segment.text), lang),
                         lang)

\* the entries of the n-th segment, each with the number of its segment
NumberedEntries(here, n) ==
    [j \in 1..Len(here) |-> here[j] @@ [segment |-> n]]

RECURSIVE AllEntriesNewestFirst(_, _, _)
\* a mutation of AllEntries: the entries of a segment are put before those
\* of the segments before it
AllEntriesNewestFirst(segs, n, lang) ==
    IF n > Len(segs) THEN << >>
    ELSE AllEntriesNewestFirst(segs, n + 1, lang)
             \o NumberedEntries(SegmentEntries(segs[n], lang), n)

RECURSIVE AllEntries(_, _, _)
\* the loop "for segment in segments" from the n-th segment on
AllEntries(segs, n, lang) ==
    IF n > Len(segs) THEN << >>
    ELSE NumberedEntries(SegmentEntries(segs[n], lang), n)
             \o AllEntries(segs, n + 1, lang)

\* format_transcript_with_timestamps from "processing_steps.append" on,
\* for the entries appended and the language l in force
TimestampResult(t, appended, ttl, l) ==
    LET timestamped_sentences == [j \in 1..Len(appended) |-> appended[j].line]
        formatted_sentences ==
            [j \in 1..Len(appended) |-> appended[j].sentence]
        title_line == IF ttl # << >> THEN QuotedTitle(ttl, l) \o <<"\n">>
                      ELSE << >>
    IN  [is_none |-> FALSE,
         original_text |-> t,
         formatted_text |-> title_line \o Join(formatted_sentences, <<"\n">>),
         timestamped_text |->
             title_line \o Join(timestamped_sentences, <<"\n">>),
         language |-> l,
         sentence_count |-> Len(formatted_sentences),
         word_count |-> WordCount(t, l),
         processing_applied |->
             << StepPunctuation, StepTimestamps >>
                 \o (IF ttl # << >> THEN << StepTitle >> ELSE << >>)]

\* "if language == 'auto': language = self._detect_language(text)"
EffectiveLanguage(t, lang) ==
    IF lang = "auto" THEN DetectLanguage(t) ELSE lang

\* the entries format_transcript_with_timestamps appends to its lists; none
\* on the early return
TimestampEntries(t, isNone, segs, lang) ==
    IF isNone \/ IsBlank(t) THEN << >>
    ELSE AllEntries(segs, 1, EffectiveLanguage(t, lang))

FormatTranscriptWithTimestamps(t, isNone, segs, ttl, lang) ==
    IF isNone \/ IsBlank(t) THEN EmptyResult(t, isNone, lang, TRUE)
    ELSE TimestampResult(t, TimestampEntries(t, isNone, segs, lang), ttl,
                         EffectiveLanguage(t, lang))

\* processed_sentences of add_punctuation; none on the early return
PunctuationEntries(t, isNone, lang) ==
    IF isNone \/ IsBlank(t) THEN << >> ELSE ProcessedSentences(t, lang)

----------------------------------------------------------------------------
(* The arguments of the calls.                                             *)

\* the longest sentence handed to _add_sentence_punctuation, in pieces
MaxPieces == 3

\* the number of times _add_sentence_punctuation is applied in a row
MaxCalls == 2

\* the longest text handed to _detect_language, in characters
MaxDetectLen == 10

\* the longest text handed to the splitter, in chunks
MaxChunks == 3

\* the most repetitions of a unit in a text handed to the splitter
MaxRepeat == 11

\* the longest text handed to the format calls, in chunks
MaxFormatChunks == 1

\* the most segments handed to format_transcript_with_timestamps
MaxSegments == 1

\* the sequences of at most n elements of S
SeqsUpTo(S, n) == UNION {[1..k -> S] : k \in 0..n}

\* the texts of 1..n chunks of S, the chunks separated by one space
ChunkTexts(S, n) == {Join(cs, <<" ">>) : cs \in SeqsUpTo(S, n) \ {<< >>}}

\* unit repeated n times, the repetitions separated by one space
Repeat(unit, n) == Join([k \in 1..n |-> unit], <<" ">>)

\* "what", " is ", "so", "ok", "um", " ", ".", "?", "!"
EnPieces ==
    { <<"w", "h", "a", "t">>, <<" ", "i", "s", " ">>, <<"s", "o">>,
      <<"o", "k">>, <<"u", "m">>, <<" ">>, <<".">>, <<"?">>, <<"!">> }

\* U+5417 (question cue), U+597D (exclamation cue), U+6211, U+55EF
\* (filler), " ", U+3002, U+FF1F, U+FF01
ZhPieces ==
    { <<"U5417">>, <<"U597D">>, <<"U6211">>, <<"U55EF">>, <<" ">>,
      <<"U3002">>, <<"UFF1F">>, <<"UFF01">> }

\* the sentences of at most MaxPieces pieces
Sentences(lang) ==
    {Join(ps, << >>) :
        ps \in SeqsUpTo(IF lang = "zh" THEN ZhPieces ELSE EnPieces, MaxPieces)}

\* the texts of at most MaxDetectLen characters: an ideograph, a letter,
\* a space
DetectTexts == SeqsUpTo({"U4F60", "a", " "}, MaxDetectLen)

\* "hello", "then", "but", "um", "we can continue to improve", "ok,"
EnChunkSet ==
    { <<"h", "e", "l", "l", "o">>, <<"t", "h", "e", "n">>, <<"b", "u", "t">>,
      <<"u", "m">>,
      <<"w", "e", " ", "c", "a", "n", " ", "c", "o", "n", "t", "i", "n", "u",
        "e", " ", "t", "o", " ", "i", "m", "p", "r", "o", "v", "e">>,
      <<"o", "k", ",">> }

\* U+4F60 U+597D, U+7136 U+540E (marker), U+6240 U+4EE5 (marker), U+55EF
\* (filler), eight ideographs without cue, U+4F60 U+597D U+FF0C
ZhChunkSet ==
    { <<"U4F60", "U597D">>, <<"U7136", "U540E">>, <<"U6240", "U4EE5">>,
      <<"U55EF">>,
      <<"U6211", "U4EEC", "U53EF", "U4EE5", "U7EE7", "U7EED", "U6539",
        "U8FDB">>,
      <<"U4F60", "U597D", "UFF0C">> }

\* "a then but"
EnRepeatUnit == <<"a", " ", "t", "h", "e", "n", " ", "b", "u", "t">>

\* U+7136 U+540E " " U+6240 U+4EE5
ZhRepeatUnit == <<"U7136", "U540E", " ", "U6240", "U4EE5">>

\* a Chinese text of three spans of at most 6 characters, with a comma in
\* the second: U+4F60 U+597D " " U+7136 U+540E U+4F60 U+597D U+FF0C U+4F60
\* " " U+6240 U+4EE5 U+4F60 U+597D U+597D
ZhCommaText ==
    << "U4F60", "U597D", " ", "U7136", "U540E", "U4F60", "U597D", "UFF0C",
       "U4F60", " ", "U6240", "U4EE5", "U4F60", "U597D", "U597D" >>

\* an English text with runs of whitespace: " a b c d e \n then  a b c d e"
EnSpacedText ==
    << " ", "a", " ", "b", " ", "c", " ", "d", " ", "e", " ", "\n", " ", "t",
       "h", "e", "n", " ", " ", "a", " ", "b", " ", "c", " ", "d", " ", "e" >>

\* the texts handed to the splitter
SplitTexts(lang) ==
    IF lang = "zh"
    THEN ChunkTexts(ZhChunkSet, MaxChunks)
             \cup { ZhCommaText }
             \cup {Repeat(ZhRepeatUnit, n) : n \in 1..MaxRepeat}
    ELSE ChunkTexts(EnChunkSet, MaxChunks)
             \cup { EnSpacedText }
             \cup {Repeat(EnRepeatUnit, n) : n \in 1..MaxRepeat}

\* the empty text and two texts of whitespace
BlankTexts == { << >>, <<" ">>, <<"\t", " ">> }

\* chinese_text of the module's own test run
ChineseExample ==
    << "U4F60", "U597D", " ", "U8FD9", "U662F", "U4E00", "U4E2A", "U6D4B",
       "U8BD5", " ", "U6211", "U89C9", "U5F97", "U8FD9", "U4E2A", "U529F",
       "U80FD", "U5F88", "U4E0D", "U9519", " ", "U55EF", " ", "U7136", "U540E",
       "U6211", "U4EEC", "U53EF", "U4EE5", "U7EE7", "U7EED", "U6539", "U8FDB" >>

\* english_text of the module's own test run
EnglishExample ==
    << "h", "e", "l", "l", "o", " ", "t", "h", "i", "s", " ", "i", "s", " ",
       "a", " ", "t", "e", "s", "t", " ", "I", " ", "t", "h", "i", "n", "k",
       " ", "t", "h", "i", "s", " ", "f", "e", "a", "t", "u", "r", "e", " ",
       "i", "s", " ", "r", "e", "a", "l", "l", "y", " ", "g", "o", "o", "d",
       " ", "u", "m", " ", "t", "h", "e", "n", " ", "w", "e", " ", "c", "a",
       "n", " ", "c", "o", "n", "t", "i", "n", "u", "e", " ", "t", "o", " ",
       "i", "m", "p", "r", "o", "v", "e", " ", "i", "t" >>

\* a Chinese text of seven sentences, each after the first opened by a
\* split word of its own
ChineseSeven ==
    << "U6211", "U4EEC", "U4E00", "U8D77", "U53BB", "U5B66", "U4E60", " ",
       "U7136", "U540E", "U6211", "U4EEC", "U53BB", "U5B66", "U4E60", " ",
       "U63A5", "U7740", "U6211", "U4EEC", "U53BB", "U5B66", "U4E60", " ",
       "U540E", "U6765", "U6211", "U4EEC", "U53BB", "U5B66", "U4E60", " ",
       "U4E8E", "U662F", "U6211", "U4EEC", "U53BB", "U5B66", "U4E60", " ",
       "U6240", "U4EE5", "U6211", "U4EEC", "U53BB", "U5B66", "U4E60", " ",
       "U56E0", "U6B64", "U6211", "U4EEC", "U53BB", "U5B66", "U4E60" >>

\* an English text of seven sentences of five words, each after the first
\* opened by a split word of its own
EnglishSeven ==
    << "a", " ", "b", " ", "c", " ", "d", " ", "e", " ", "t", "h", "e", "n",
       " ", "b", " ", "c", " ", "d", " ", "e", " ", "n", "e", "x", "t", " ",
       "b", " ", "c", " ", "d", " ", "e", " ", "a", "f", "t", "e", "r", " ",
       "b", " ", "c", " ", "d", " ", "e", " ", "s", "o", " ", "b", " ", "c",
       " ", "d", " ", "e", " ", "b", "u", "t", " ", "b", " ", "c", " ", "d",
       " ", "e", " ", "a", "l", "s", "o", " ", "b", " ", "c", " ", "d", " ",
       "e" >>

\* the texts handed to the format calls
FormatTexts ==
    BlankTexts
        \cup { ChineseExample, EnglishExample, ChineseSeven, EnglishSeven }
        \cup ChunkTexts({ <<"h", "e", "l", "l", "o">>, <<"u", "m">>,
                          <<"t", "h", "e", "n">>,
                          <<"w", "e", " ", "c", "a", "n", " ", "c", "o", "n",
                            "t", "i", "n", "u", "e", " ", "t", "o", " ", "i",
                            "m", "p", "r", "o", "v", "e">> },
                        MaxFormatChunks)
        \cup ChunkTexts({ <<"U4F60", "U597D">>, <<"U55EF">>,
                          <<"U7136", "U540E">>,
                          <<"U6211", "U4EEC", "U53EF", "U4EE5", "U7EE7",
                            "U7EED", "U6539", "U8FDB">> },
                        MaxFormatChunks)

\* no title, and the title "T"
Titles == { << >>, <<"T">> }

\* "um", "what is this", and a text of two candidates
SegmentTexts ==
    { <<"u", "m">>,
      <<"w", "h", "a", "t", " ", "i", "s", " ", "t", "h", "i", "s">>,
      <<"w", "e", " ", "c", "a", "n", " ", "c", "o", "n", "t", "i", "n", "u",
        "e", " ", "t", "o", " ", "i", "m", "p", "r", "o", "v", "e", " ", "t",
        "h", "e", "n", " ", "w", "e", " ", "c", "a", "n", " ", "c", "o", "n",
        "t", "i", "n", "u", "e", " ", "t", "o", " ", "i", "m", "p", "r", "o",
        "v", "e">> }

\* the segments: a text, a start in seconds and an end in seconds
Segments ==
    { [text |-> t, start |-> s, end |-> s + d] :
        t \in SegmentTexts, s \in {0, 59}, d \in {0, 3} }

\* the lists of at most MaxSegments segments
SegmentLists == SeqsUpTo(Segments, MaxSegments)

----------------------------------------------------------------------------
(* __init__                                                                *)

\* the fields __init__ sets
InitialProcessor ==
    [sentence_indicators |->
         << <<"U5427">>, <<"U5462">>, <<"U554A">>, <<"U54E6">>, <<"U55EF">>,
            <<"U5509">>, <<"U54CE">>, <<"U54A6">>, <<"U54C7">>,
            <<"U7684", "U8BDD">>, <<"U8FD9", "U6837">>, <<"U90A3", "U6837">>,
            <<"U5C31", "U662F">>, <<"U7136", "U540E">>, <<"U6240", "U4EE5">>,
            <<"U56E0", "U4E3A">>, <<"U4F46", "U662F">>, <<"U4E0D", "U8FC7">>,
            <<"U867D", "U7136">>, <<"U5982", "U679C">>, <<"U8981", "U662F">>,
            <<"U9664", "U975E">>, <<"y", "e", "a", "h">>,
            <<"w", "e", "l", "l">>, <<"o", "k", "a", "y">>,
            <<"r", "i", "g", "h", "t">>,
            <<"a", "c", "t", "u", "a", "l", "l", "y">>,
            <<"b", "a", "s", "i", "c", "a", "l", "l", "y">>,
            <<"a", "n", "y", "w", "a", "y">>,
            <<"h", "o", "w", "e", "v", "e", "r">>,
            <<"t", "h", "e", "r", "e", "f", "o", "r", "e">>,
            <<"b", "e", "c", "a", "u", "s", "e">>,
            <<"a", "l", "t", "h", "o", "u", "g", "h">> >>,
     pause_indicators |->
         << <<"U55EF", "U55EF">>, <<"U554A", "U554A">>, <<"U5443">>,
            <<"U989D">>, <<"U90A3", "U4E2A">>, <<"U8FD9", "U4E2A">>,
            <<"U5C31", "U662F", "U8BF4">>, <<"u", "m">>, <<"u", "h">>,
            <<"e", "r">>, <<"w", "e", "l", "l">>,
            <<"y", "o", "u", " ", "k", "n", "o", "w">>,
            <<"I", " ", "m", "e", "a", "n">> >>]

----------------------------------------------------------------------------
(* The calls.  A specification starts with the arguments chosen and        *)
(* pc = "start"; a call stores what it returns and moves pc to its name.   *)

\* the state before any call, for the arguments given
Start(t, isNone, ttl, lang, s) ==
    /\ pc = "start"
    /\ text = t
    /\ textIsNone = isNone
    /\ title = ttl
    /\ language = lang
    /\ segments = << >>
    /\ sentence = s
    /\ punctuated = << >>
    /\ candidates = << >>
    /\ detected = ""
    /\ formatted = << >>
    /\ entries = << >>
    /\ stamped = << >>
    /\ result = << >>
    /\ processor = InitialProcessor
    /\ calls = << >>
    /\ cursor = 0

\* _add_sentence_punctuation(sentence, language), and again on what the
\* call before returned
AddSentencePunctuationCall ==
    /\ pc \in {"start", "_add_sentence_punctuation"}
    /\ Len(punctuated) < MaxCalls
    /\ punctuated' =
           Append(punctuated,
                  AddSentencePunctuation(
                      IF punctuated = << >> THEN sentence
                      ELSE punctuated[Len(punctuated)], language))
    /\ pc' = "_add_sentence_punctuation"
    /\ UNCHANGED << text, textIsNone, title, language, segments, sentence,
                    candidates, detected, formatted, entries,
                    result, stamped >>
    /\ UNCHANGED << processor, calls, cursor >>

\* _detect_language(text)
DetectLanguageCall ==
    /\ pc = "start"
    /\ detected' = DetectLanguage(text)
    /\ pc' = "_detect_language"
    /\ UNCHANGED << text, textIsNone, title, language, segments, sentence,
                    punctuated, candidates, formatted, entries,
                    result, stamped >>
    /\ UNCHANGED << processor, calls, cursor >>

\* _split_sentences_improved(text, language)
SplitSentencesImprovedCall ==
    /\ pc = "start"
    /\ candidates' = SplitSentencesImproved(text, language)
    /\ pc' = "_split_sentences_improved"
    /\ UNCHANGED << text, textIsNone, title, language, segments, sentence,
                    punctuated, detected, formatted, entries,
                    result, stamped >>
    /\ UNCHANGED << processor, calls, cursor >>

\* add_punctuation(text, language); a text that is None or blank is
\* returned as it is
AddPunctuationCall ==
    /\ pc = "start"
    /\ \E processed \in { PunctuationEntries(text, textIsNone, language) } :
           /\ formatted' = IF textIsNone \/ IsBlank(text) THEN text
                           ELSE Join(processed, <<"\n">>)
           /\ entries' = processed
    /\ pc' = "add_punctuation"
    /\ UNCHANGED << text, textIsNone, title, language, segments, sentence,
                    punctuated, candidates, detected,
                    result, stamped >>
    /\ UNCHANGED << processor, calls, cursor >>

\* format_transcript(text, title, language)
FormatTranscriptCall ==
    /\ pc = "start"
    /\ \E processed \in { PunctuationEntries(text, textIsNone, language) } :
           /\ result' = IF textIsNone \/ IsBlank(text)
                        THEN EmptyResult(text, textIsNone, language, FALSE)
                        ELSE TranscriptResult(text, processed, title, language)
           /\ entries' = processed
    /\ pc' = "format_transcript"
    /\ UNCHANGED << text, textIsNone, title, language, segments, sentence,
                    punctuated, candidates, detected, formatted, stamped >>
    /\ UNCHANGED << processor, calls, cursor >>

\* format_transcript_with_timestamps(text, segments, title, language) for
\* a segments argument of lists
FormatTranscriptWithTimestampsOn(lists) ==
    /\ pc = "start"
    /\ \E segs \in lists :
         \E appended \in
                 { TimestampEntries(text, textIsNone, segs, language) } :
           /\ segments' = segs
           /\ result' = IF textIsNone \/ IsBlank(text)
                        THEN EmptyResult(text, textIsNone, language, TRUE)
                        ELSE TimestampResult(text, appended, title,
                                             EffectiveLanguage(text, language))
           /\ entries' = [j \in 1..Len(appended) |-> appended[j].sentence]
           /\ stamped' = appended
    /\ pc' = "format_transcript_with_timestamps"
    /\ UNCHANGED << text, textIsNone, title, language, sentence, punctuated,
                    candidates, detected, formatted >>
    /\ UNCHANGED << processor, calls, cursor >>

\* format_transcript_with_timestamps(text, segments, title, language)
FormatTranscriptWithTimestampsCall ==
    FormatTranscriptWithTimestampsOn(SegmentLists)

\* the public calls: add_punctuation, format_transcript and
\* format_transcript_with_timestamps
Init ==
    \E t \in FormatTexts, isNone \in BOOLEAN, ttl \in Titles,
       lang \in {"zh", "en", "auto"} :
        /\ isNone => t = << >>
        /\ Start(t, isNone, ttl, lang, << >>)

Next ==
    \/ AddPunctuationCall
    \/ FormatTranscriptCall
    \/ FormatTranscriptWithTimestampsCall

Spec == Init /\ [][Next]_vars

\* _add_sentence_punctuation on its own
InitPunct ==
    \E lang \in {"zh", "en"} :
        \E s \in Sentences(lang) : Start(<< >>, FALSE, << >>, lang, s)

NextPunct == AddSentencePunctuationCall

SpecPunct == InitPunct /\ [][NextPunct]_vars

\* _detect_language on its own
InitDetect == \E t \in DetectTexts : Start(t, FALSE, << >>, "auto", << >>)

NextDetect == DetectLanguageCall

SpecDetect == InitDetect /\ [][NextDetect]_vars

\* _split_sentences_improved on its own
InitSplit ==
    \E lang \in {"zh", "en"} :
        \E t \in SplitTexts(lang) \cup BlankTexts :
            Start(t, FALSE, << >>, lang, << >>)

NextSplit == SplitSentencesImprovedCall

SpecSplit == InitSplit /\ [][NextSplit]_vars

\* the longest text handed to _clean_text on its own
MaxCleanLen == 5

\* the texts of at most MaxCleanLen characters: a letter in its two cases,
\* a hyphen, a space, a newline
CleanTexts == SeqsUpTo({"t", "T", "-", " ", "\n"}, MaxCleanLen)

\* _clean_text(text)
CleanTextCall ==
    /\ pc = "start"
    /\ formatted' = CleanText(text)
    /\ pc' = "_clean_text"
    /\ UNCHANGED << text, textIsNone, title, language, segments, sentence,
                    punctuated, candidates, detected, entries, result,
                    stamped >>
    /\ UNCHANGED << processor, calls, cursor >>

\* _clean_text on its own
InitClean == \E t \in CleanTexts : Start(t, FALSE, << >>, "en", << >>)

NextClean == CleanTextCall

SpecClean == InitClean /\ [][NextClean]_vars

\* the number of pieces of a sentence handed to _remove_filler_words on its
\* own
MaxFillerPieces == 3

\* English: "um", "Uh", "alb", "hi", "well", "you", "know", " "; Chinese:
\* U+55EF, U+989D, U+91D1, U+4F60 U+597D, U+8FD9 U+4E2A,
\* U+5C31 U+662F U+8BF4, " "
FillerPieces(lang) ==
    IF lang = "en"
    THEN { <<"u", "m">>, <<"U", "h">>, <<"a", "l", "b">>, <<"h", "i">>,
           <<"w", "e", "l", "l">>, <<"y", "o", "u">>, <<"k", "n", "o", "w">>,
           <<" ">> }
    ELSE { <<"U55EF">>, <<"U989D">>, <<"U91D1">>, <<"U4F60", "U597D">>,
           <<"U8FD9", "U4E2A">>, <<"U5C31", "U662F", "U8BF4">>, <<" ">> }

\* the sentences made of at most MaxFillerPieces pieces put end to end
FillerSentences(lang) ==
    {Join(cs, << >>) : cs \in SeqsUpTo(FillerPieces(lang), MaxFillerPieces)}

\* _remove_filler_words(sentence, language)
RemoveFillerWordsCall ==
    /\ pc = "start"
    /\ formatted' = RemoveFillerWords(sentence, language)
    /\ pc' = "_remove_filler_words"
    /\ UNCHANGED << text, textIsNone, title, language, segments, sentence,
                    punctuated, candidates, detected, entries, result,
                    stamped >>
    /\ UNCHANGED << processor, calls, cursor >>

\* _remove_filler_words on its own
InitFiller ==
    \E lang \in {"zh", "en"} :
        \E s \in FillerSentences(lang) : Start(<< >>, FALSE, << >>, lang, s)

NextFiller == RemoveFillerWordsCall

SpecFiller == InitFiller /\ [][NextFiller]_vars

\* the most segments of a call whose timestamps are followed from segment
\* to segment
MaxTimelineSegments == 2

\* the lists of at most MaxTimelineSegments segments, ordered or not
TimelineSegmentLists == SeqsUpTo(Segments, MaxTimelineSegments)

\* format_transcript_with_timestamps on several segments, for an English
\* text, a Chinese text and the empty text
FormatTimelineCall == FormatTranscriptWithTimestampsOn(TimelineSegmentLists)

InitTimeline ==
    \E t \in { EnglishExample, ChineseExample, << >> },
       lang \in {"en", "auto"} :
        Start(t, FALSE, << >>, lang, << >>)

NextTimeline == FormatTimelineCall

SpecTimeline == InitTimeline /\ [][NextTimeline]_vars

\* the marker scans of _split_chinese_improved and _split_english_improved,
\* one iteration of the while loop at a time: the texts that
\* _split_sentences_improved hands over, and the empty text
ScanTexts(lang) == {NormalizeSpaces(t) : t \in SplitTexts(lang)} \cup {<< >>}

\* "sentences = []" and "current_pos = 0"
ScanEnter ==
    /\ pc = "start"
    /\ candidates' = << >>
    /\ cursor' = 0
    /\ pc' = "while"
    /\ UNCHANGED << text, textIsNone, title, language, segments, sentence,
                    punctuated, detected, formatted, entries,
                    result, stamped, processor, calls >>

\* one iteration of the while loop: it ends in "current_pos = next_split_pos"
\* or in break
ScanIteration ==
    /\ pc = "while"
    /\ cursor < Len(text)
    /\ \E st \in { IF language = "zh"
                    THEN ZhScanStep(text, cursor, candidates)
                    ELSE EnScanStep(text, cursor, candidates) } :
           /\ candidates' = st.sentences
           /\ cursor' = st.current_pos
           /\ pc' = IF st.break THEN "scanned" ELSE "while"
    /\ UNCHANGED << text, textIsNone, title, language, segments, sentence,
                    punctuated, detected, formatted, entries,
                    result, stamped, processor, calls >>

\* the loop condition "current_pos < len(text)" is false
ScanExit ==
    /\ pc = "while"
    /\ ~(cursor < Len(text))
    /\ pc' = "scanned"
    /\ UNCHANGED << text, textIsNone, title, language, segments, sentence,
                    punctuated, candidates, detected, formatted, entries,
                    result, stamped, processor, calls, cursor >>

InitScan ==
    \E lang \in {"zh", "en"} :
        \E t \in ScanTexts(lang) : Start(t, FALSE, << >>, lang, << >>)

NextScan == ScanEnter \/ ScanIteration \/ ScanExit

\* the interpreter keeps running the loop of a call that has not returned
SpecScan == InitScan /\ [][NextScan]_vars /\ WF_vars(NextScan)

----------------------------------------------------------------------------
(* Calls made at the same time, by several threads, on one processor and   *)
(* with one list of segments.  A call is cut where a thread switch can     *)
(* show: at its entry test, at the language detection, at each turn of the *)
(* segment loop, at the punctuation of the text and at the assembly of the *)
(* value returned.  Everything a call assigns is a local variable of it.   *)

\* the number of threads
MaxThreads == 2

Threads == 1..MaxThreads

\* the three public calls
Operations ==
    { "add_punctuation", "format_transcript",
      "format_transcript_with_timestamps" }

\* a blank text and "what is this"
ConcurrentTexts ==
    { <<" ">>,
      <<"w", "h", "a", "t", " ", "i", "s", " ", "t", "h", "i", "s">> }

\* no segment, and a list of two segments
SharedSegmentLists ==
    { << >>,
      << [text |-> <<"u", "m">>, start |-> 0, end |-> 3],
         [text |-> <<"w", "h", "a", "t", " ", "i", "s", " ", "t", "h", "i",
                     "s">>,
          start |-> 59, end |-> 62] >> }

\* the frame of a call at its first statement
NewCall(op, t, segs) ==
    [op |-> op,
     text |-> t,
     title |-> <<"T">>,
     language |-> "auto",
     segments_at_call |-> segs,
     pc |-> "entry",
     l |-> "",
     n |-> 1,
     appended |-> << >>,
     result |-> << >>]

\* a mutation of SegmentsAfterLoopStep: the loop takes its segment off the
\* list
SegmentsAfterLoopStepPopped(segs) == Tail(segs)

\* the list after one turn of "for segment in segments": the loop reads it
SegmentsAfterLoopStep(segs) == segs

\* the variables of the single calls
singleCallVars ==
    << pc, text, textIsNone, title, language, sentence, punctuated,
       candidates, detected, formatted, entries, stamped, result, cursor >>

\* "if not text or not text.strip()" and the early return
CallEntry(t) ==
    /\ calls[t].pc = "entry"
    /\ calls' =
           [calls EXCEPT ![t] =
               IF IsBlank(@.text)
               THEN [@ EXCEPT
                       !.pc = "done",
                       !.result =
                           IF calls[t].op = "add_punctuation"
                           THEN calls[t].text
                           ELSE EmptyResult(
                                    calls[t].text, FALSE, calls[t].language,
                                    calls[t].op
                                        = "format_transcript_with_timestamps")]
               ELSE [@ EXCEPT
                       !.pc = IF calls[t].op
                                     = "format_transcript_with_timestamps"
                              THEN "detect" ELSE "punctuate"]]
    /\ UNCHANGED << singleCallVars, segments, processor >>

\* "if language == 'auto': language = self._detect_language(text)" of
\* format_transcript_with_timestamps
CallDetect(t) ==
    /\ calls[t].pc = "detect"
    /\ calls' =
           [calls EXCEPT ![t] =
               [@ EXCEPT !.pc = "segments",
                         !.l = EffectiveLanguage(calls[t].text,
                                                 calls[t].language)]]
    /\ UNCHANGED << singleCallVars, segments, processor >>

\* one turn of "for segment in segments", or the end of the loop
CallSegment(t) ==
    /\ calls[t].pc = "segments"
    /\ IF calls[t].n <= Len(segments)
       THEN /\ calls' =
                   [calls EXCEPT ![t] =
                       [@ EXCEPT
                           !.n = @ + 1,
                           !.appended =
                               @ \o NumberedEntries(
                                        SegmentEntries(segments[calls[t].n],
                                                       calls[t].l),
                                        calls[t].n)]]
            /\ segments' = SegmentsAfterLoopStep(segments)
       ELSE /\ calls' = [calls EXCEPT ![t] = [@ EXCEPT !.pc = "assemble"]]
            /\ segments' = segments
    /\ UNCHANGED << singleCallVars, processor >>

\* the body of add_punctuation, called by format_transcript or by the
\* thread itself
CallPunctuate(t) ==
    /\ calls[t].pc = "punctuate"
    /\ calls' =
           [calls EXCEPT ![t] =
               [@ EXCEPT !.pc = "assemble",
                         !.appended = ProcessedSentences(calls[t].text,
                                                         calls[t].language)]]
    /\ UNCHANGED << singleCallVars, segments, processor >>

\* the value returned
CallAssemble(t) ==
    /\ calls[t].pc = "assemble"
    /\ calls' =
           [calls EXCEPT ![t] =
               [@ EXCEPT
                   !.pc = "done",
                   !.result =
                       CASE calls[t].op = "add_punctuation" ->
                                Join(calls[t].appended, <<"\n">>)
                         [] calls[t].op = "format_transcript" ->
                                TranscriptResult(
                                    calls[t].text, calls[t].appended,
                                    calls[t].title, calls[t].language)
                         [] OTHER ->
                                TimestampResult(
                                    calls[t].text, calls[t].appended,
                                    calls[t].title, calls[t].l)]]
    /\ UNCHANGED << singleCallVars, segments, processor >>

\* every thread has made its call, all on one processor and with one list
\* of segments
InitConcurrent ==
    \E segs \in SharedSegmentLists :
        \E c \in [Threads -> Operations \X ConcurrentTexts] :
            /\ pc = "concurrent"
            /\ text = << >>
            /\ textIsNone = FALSE
            /\ title = << >>
            /\ language = "auto"
            /\ segments = segs
            /\ sentence = << >>
            /\ punctuated = << >>
            /\ candidates = << >>
            /\ detected = ""
            /\ formatted = << >>
            /\ entries = << >>
            /\ stamped = << >>
            /\ result = << >>
            /\ processor = InitialProcessor
            /\ calls = [t \in Threads |-> NewCall(c[t][1], c[t][2], segs)]
            /\ cursor = 0

NextConcurrent ==
    \E t \in Threads :
        \/ CallEntry(t)
        \/ CallDetect(t)
        \/ CallSegment(t)
        \/ CallPunctuate(t)
        \/ CallAssemble(t)

SpecConcurrent == InitConcurrent /\ [][NextConcurrent]_vars

----------------------------------------------------------------------------
(* Properties of the splitter, of the punctuation step, of the language    *)
(* detector and of the format calls.                                       *)

\* C1: for every non-blank text and either language,
\* _split_sentences_improved returns at least one candidate; a text that
\* itself fails the minimum-length gate (so that no span of it passes) comes
\* back whole, as the sole candidate.
C1_NonEmptyGuarantee ==
    (pc = "_split_sentences_improved" /\ ~IsBlank(text)) =>
        /\ Len(candidates) >= 1
        /\ (IF language = "zh" THEN ~ZhKeep(Strip(text))
            ELSE ~EnKeep(Strip(text))) =>
               /\ Len(candidates) = 1
               /\ RemoveSpaces(candidates[1]) = RemoveSpaces(text)

\* C2: every non-empty result of _add_sentence_punctuation ends in exactly
\* one terminal mark of the language's set: its last character is a mark and
\* the character before it is not, whether or not the sentence handed in
\* already carried a mark.
C2_ExactlyOneTerminalMark ==
    \A k \in 1..Len(punctuated) :
        punctuated[k] # << >> =>
            /\ punctuated[k][Len(punctuated[k])] \in TerminalMarks(language)
            /\ Len(punctuated[k]) >= 2 =>
                   punctuated[k][Len(punctuated[k]) - 1]
                       \notin TerminalMarks(language)

\* C3: in add_punctuation and in format_transcript_with_timestamps a
\* candidate that is empty after filler removal is dropped: no entry of the
\* output lists is the empty string, timestamped_text has no line that is a
\* bare "[HH:MM:SS] " stamp, and sentence_count counts none.
C3_EmptyCandidatesDropped ==
    /\ pc \in {"add_punctuation", "format_transcript_with_timestamps"} =>
           \A j \in 1..Len(entries) : entries[j] # << >>
    /\ (pc = "format_transcript_with_timestamps" /\ ~IsBlank(text)
            /\ ~textIsNone) =>
           /\ LET lines == SplitChars(result.timestamped_text, {"\n"})
              IN  \A n \in 1..Len(lines) :
                      ~(/\ Len(lines[n]) = 11
                        /\ lines[n][1] = "["
                        /\ lines[n][10] = "]")
           /\ result.sentence_count
                  = Cardinality({j \in 1..Len(entries) : entries[j] # << >>})

\* C4: for every non-blank input, sentence_count of format_transcript and of
\* format_transcript_with_timestamps is the number of non-empty punctuated
\* sentences the call emitted into formatted_text.
C4_SentenceCountMatchesEmitted ==
    (pc \in {"format_transcript", "format_transcript_with_timestamps"}
         /\ ~textIsNone /\ ~IsBlank(text)) =>
        result.sentence_count
            = Cardinality({j \in 1..Len(entries) : entries[j] # << >>})

\* C5: for every non-blank text, word_count of format_transcript and of
\* format_transcript_with_timestamps is taken from the original text: the
\* number of whitespace-separated tokens when the result reports 'en', the
\* number of non-whitespace characters when it reports 'zh', for every
\* value of the language argument.
C5_WordCountFollowsReportedLanguage ==
    (pc \in {"format_transcript", "format_transcript_with_timestamps"}
         /\ ~textIsNone /\ ~IsBlank(text)) =>
        result.word_count =
            IF result.language = "en"
            THEN Cardinality({i \in 1..Len(text) :
                     ~IsSpace(text[i]) /\ (i = 1 \/ IsSpace(text[i - 1]))})
            ELSE Cardinality({i \in 1..Len(text) : ~IsSpace(text[i])})

\* C6: when text is None, empty or whitespace-only, format_transcript and
\* format_transcript_with_timestamps return a result with
\* sentence_count = 0, word_count = 0 and processing_applied = [], whatever
\* the title, the language and the segments are.
C6_EmptyInputResult ==
    (pc \in {"format_transcript", "format_transcript_with_timestamps"}
         /\ (textIsNone \/ AllSpace(text, 0, Len(text)))) =>
        /\ result.sentence_count = 0
        /\ result.word_count = 0
        /\ result.processing_applied = << >>

\* a whitespace-only text, with a title and a segment, has gone through
\* format_transcript_with_timestamps
C6_Witness ==
    /\ pc = "format_transcript_with_timestamps"
    /\ ~textIsNone
    /\ text = <<"\t", " ">>
    /\ title # << >>
    /\ language = "auto"
    /\ segments # << >>
    /\ result.processing_applied = << >>

\* C7: punctuation is idempotent on a sentence that already ends in a
\* terminal mark of the language: punctuating the result again returns the
\* result.
C7_IdempotentPunctuation ==
    (sentence # << >> /\ sentence[Len(sentence)] \in TerminalMarks(language))
        => \A k \in 2..Len(punctuated) : punctuated[k] = punctuated[1]

\* a sentence ending in a mark was changed by the first call and left alone
\* by the second
C7_Witness ==
    /\ pc = "_add_sentence_punctuation"
    /\ Len(punctuated) >= 2
    /\ sentence # << >>
    /\ sentence[Len(sentence)] \in TerminalMarks(language)
    /\ punctuated[1] # sentence
    /\ punctuated[1] # << >>
    /\ punctuated[2] = punctuated[1]

\* C8: a trimmed sentence that already ends in a terminal mark of its
\* language's set is returned unchanged by _add_sentence_punctuation,
\* whichever class its cues put it in.
C8_TerminatedReturnedUnchanged ==
    (Len(punctuated) >= 1 /\ sentence # << >> /\ Strip(sentence) = sentence
         /\ sentence[Len(sentence)] \in TerminalMarks(language))
        => punctuated[1] = sentence

\* C9: _detect_language returns 'zh' exactly when the ideographs are
\* strictly more than 0.3 of the non-whitespace characters; a ratio of
\* exactly 0.3, and a text with no non-whitespace character, give 'en'.
C9_DetectThreshold ==
    pc = "_detect_language" =>
        LET total == Cardinality({i \in 1..Len(text) : ~IsSpace(text[i])})
            cjk == Cardinality({i \in 1..Len(text) : IsCJK(text[i])})
        IN  /\ detected \in {"zh", "en"}
            /\ detected = "zh" <=> (total > 0 /\ 10 * cjk > 3 * total)

\* three ideographs among ten non-whitespace characters: the ratio is
\* exactly 0.3 and the answer is 'en'
C9_Witness ==
    /\ pc = "_detect_language"
    /\ Cardinality({i \in 1..Len(text) : ~IsSpace(text[i])}) = 10
    /\ Cardinality({i \in 1..Len(text) : IsCJK(text[i])}) = 3
    /\ detected = "en"

\* C10: whenever _split_sentences_improved returns two or more candidates,
\* every one of them passes the minimum-length gate after trimming (more
\* than 6 characters in Chinese, more than 4 tokens in English).
C10_CandidatesPassGate ==
    (pc = "_split_sentences_improved" /\ Len(candidates) >= 2) =>
        \A k \in 1..Len(candidates) :
            IF language = "zh" THEN ZhKeep(Strip(candidates[k]))
            ELSE EnKeep(Strip(candidates[k]))

C13_ScenarioAFirstEndsInFullStop ==
    (pc = "format_transcript" /\ text = ChineseExample /\ language = "zh")
        => /\ entries =
                  << << "U4F60", "U597D", " ", "U8FD9", "U662F", "U4E00",
                        "U4E2A", "U6D4B", "U8BD5", " ", "U6211", "U89C9",
                        "U5F97", "U8FD9", "U4E2A", "U529F", "U80FD", "U5F88",
                        "U4E0D", "U9519" >>
                         \o ZhPeriod,
                     << "U7136", "U540E", "U6211", "U4EEC", "U53EF", "U4EE5",
                        "U7EE7", "U7EED", "U6539", "U8FDB", "U3002" >> >>
           /\ result.sentence_count = 2
           /\ \E n \in 1..Len(result.processing_applied) :
                  result.processing_applied[n] = StepPunctuation

\* C13 as amended: the same call yields exactly 2 punctuated sentences, the
\* first (it holds the exclamation cue U+597D) ending in the exclamation
\* mark U+FF01 and the second in the full stop U+3002, the trailing filler
\* stripped from the first, with the punctuation label in
\* processing_applied.
C13_ScenarioAFirstEndsInExclamation ==
    (pc = "format_transcript" /\ text = ChineseExample /\ language = "zh")
        => /\ entries =
                  << << "U4F60", "U597D", " ", "U8FD9", "U662F", "U4E00",
                        "U4E2A", "U6D4B", "U8BD5", " ", "U6211", "U89C9",
                        "U5F97", "U8FD9", "U4E2A", "U529F", "U80FD", "U5F88",
                        "U4E0D", "U9519" >>
                         \o ZhExclamation,
                     << "U7136", "U540E", "U6211", "U4EEC", "U53EF", "U4EE5",
                        "U7EE7", "U7EED", "U6539", "U8FDB", "U3002" >> >>
           /\ result.sentence_count = 2
           /\ \E n \in 1..Len(result.processing_applied) :
                  result.processing_applied[n] = StepPunctuation

\* the Chinese example has gone through format_transcript with language
\* 'zh' and a title
C13_Witness ==
    /\ pc = "format_transcript"
    /\ text = ChineseExample
    /\ language = "zh"
    /\ title # << >>
    /\ Len(entries) = 2

\* C14: format_transcript on the English example with language 'en' splits
\* at 'then', strips the trailing 'um' from the clause before the split and
\* emits exactly 2 sentences; both hold an auxiliary between spaces and end
\* in '?', and the second begins with 'then'.
C14_ScenarioB ==
    (pc = "format_transcript" /\ text = EnglishExample /\ language = "en")
        => /\ entries =
                  << << "h", "e", "l", "l", "o", " ", "t", "h", "i", "s", " ",
                        "i", "s", " ", "a", " ", "t", "e", "s", "t", " ", "I",
                        " ", "t", "h", "i", "n", "k", " ", "t", "h", "i", "s",
                        " ", "f", "e", "a", "t", "u", "r", "e", " ", "i", "s",
                        " ", "r", "e", "a", "l", "l", "y", " ", "g", "o", "o",
                        "d", "?" >>,
                     << "t", "h", "e", "n", " ", "w", "e", " ", "c", "a", "n",
                        " ", "c", "o", "n", "t", "i", "n", "u", "e", " ", "t",
                        "o", " ", "i", "m", "p", "r", "o", "v", "e", " ", "i",
                        "t", "?" >> >>
           /\ result.sentence_count = 2

\* the English example has gone through format_transcript with language
\* 'en' and no title
C14_Witness ==
    /\ pc = "format_transcript"
    /\ text = EnglishExample
    /\ language = "en"
    /\ title = << >>
    /\ Len(entries) = 2
    /\ result.formatted_text = Join(entries, <<"\n">>)

\* C15: the calls are independent and free of side effects: whatever the
\* interleaving of calls made at the same time on one processor, the fields
\* of the processor and the list of segments stay as they were, and a call
\* that has returned has returned what it returns when run alone with the
\* same arguments.
C15_CallsAreIndependent ==
    pc = "concurrent" =>
        /\ processor = InitialProcessor
        /\ \A t \in DOMAIN calls :
               /\ segments = calls[t].segments_at_call
               /\ calls[t].pc = "done" =>
                      calls[t].result =
                          CASE calls[t].op = "add_punctuation" ->
                                   IF IsBlank(calls[t].text) THEN calls[t].text
                                   ELSE AddPunctuation(calls[t].text,
                                                       calls[t].language)
                            [] calls[t].op = "format_transcript" ->
                                   FormatTranscript(
                                       calls[t].text, FALSE, calls[t].title,
                                       calls[t].language)
                            [] OTHER ->
                                   FormatTranscriptWithTimestamps(
                                       calls[t].text, FALSE,
                                       calls[t].segments_at_call,
                                       calls[t].title, calls[t].language)

\* a timestamp call has returned its two sentences while another one,
\* made at the same time with the same two segments, is inside its loop
C15_Witness ==
    /\ pc = "concurrent"
    /\ Len(segments) = 2
    /\ calls[1].op = "format_transcript_with_timestamps"
    /\ calls[1].pc = "done"
    /\ calls[1].result.sentence_count = 2
    /\ calls[2].op = "format_transcript_with_timestamps"
    /\ calls[2].pc = "segments"
    /\ calls[2].n = 2

\* C16: for a non-blank text, processing_applied of format_transcript lists
\* the step labels in the order the steps ran: the punctuation label is
\* always there and first; the title label is there exactly when the title
\* is non-empty; the paragraph label is there exactly when sentence_count
\* exceeds 6, and after the title label; no label occurs twice and there is
\* no other label.
C16_StepsLoggedInOrder ==
    (pc = "format_transcript" /\ ~textIsNone /\ ~IsBlank(text)) =>
        LET steps == result.processing_applied
            At(label) == {n \in 1..Len(steps) : steps[n] = label}
        IN  /\ At(StepPunctuation) = {1}
            /\ (At(StepTitle) # {}) <=> (title # << >>)
            /\ (At(StepParagraphs) # {}) <=> (result.sentence_count > 6)
            /\ \A label \in {StepTitle, StepParagraphs} :
                   Cardinality(At(label)) <= 1
            /\ \A i \in At(StepTitle) : \A j \in At(StepParagraphs) : i < j
            /\ \A n \in 1..Len(steps) :
                   steps[n] \in {StepPunctuation, StepTitle, StepParagraphs}

\* format_transcript has put a title before seven sentences and regrouped
\* them: the three labels are logged
C16_Witness ==
    /\ pc = "format_transcript"
    /\ title # << >>
    /\ text = EnglishSeven
    /\ result.sentence_count = 7
    /\ Len(result.processing_applied) = 3

\* C17: for a non-blank text and a non-empty title, formatted_text of
\* format_transcript begins with the title between U+300A and U+300B when
\* the language the result reports is 'zh', and between double quotes when
\* it is 'en', then a blank line, then the sentences, whatever the language
\* argument is; with an empty title nothing is put before the sentences.
\* (The sentences are compared where they are not regrouped into
\* paragraphs.)
C17_TitleQuotedByReportedLanguage ==
    (pc = "format_transcript" /\ ~textIsNone /\ ~IsBlank(text)) =>
        LET head == IF title = << >> THEN << >>
                    ELSE IF result.language = "zh"
                         THEN <<"U300A">> \o title \o <<"U300B", "\n", "\n">>
                         ELSE <<"\"">> \o title \o <<"\"", "\n", "\n">>
        IN  /\ StartsWith(result.formatted_text, head)
            /\ result.sentence_count <= 6 =>
                   result.formatted_text = head \o Join(entries, <<"\n">>)

\* C18: in format_transcript, when more than 6 sentences are emitted the
\* text after the title is a sequence of paragraphs joined by a blank line,
\* each holding 4 consecutive sentences (Chinese) or 3 consecutive
\* sentences (English) except possibly the last, so that every sentence is
\* in its paragraph; when 6 sentences or fewer are emitted they stay joined
\* by single newlines and there is no paragraph break.
C18_ParagraphsOfConsecutiveSentences ==
    (pc = "format_transcript" /\ ~textIsNone /\ ~IsBlank(text)) =>
        LET head == IF title = << >> THEN << >>
                    ELSE QuotedTitle(title, language) \o <<"\n", "\n">>
            body == SubSeq(result.formatted_text, Len(head) + 1,
                           Len(result.formatted_text))
            size == IF result.language = "zh" THEN ZhParagraphSize
                    ELSE EnParagraphSize
            paragraphs == SplitStr(body, <<"\n", "\n">>)
            emitted == Len(entries)
        IN  IF emitted > 6
            THEN /\ Len(paragraphs) = (emitted + size - 1) \div size
                 /\ \A j \in 1..emitted :
                        Contains(paragraphs[((j - 1) \div size) + 1],
                                 entries[j])
            ELSE body = Join(entries, <<"\n">>)

\* the word at the end of a token: its longest suffix of \w characters
C19_TrailingWord(token) ==
    LET n == Len(token)
        starts == {i \in 1..(n + 1) : \A j \in i..n : IsWordChar(token[j])}
    IN  SubSeq(token, CHOOSE i \in starts : \A k \in starts : i <= k, n)

\* the word at the start of a token: its longest prefix of \w characters
C19_LeadingWord(token) ==
    LET n == Len(token)
        ends == {i \in 0..n : \A j \in 1..i : IsWordChar(token[j])}
    IN  SubSeq(token, 1, CHOOSE i \in ends : \A k \in ends : i >= k)

RECURSIVE C19_CollapsePairs(_, _, _, _)
\* the tokens from the k-th on, after the token cur whose last word w has
\* not been matched yet (w is empty otherwise): a token that starts with
\* the word w is a repetition of it, and what is left of that token is
\* glued to cur; the repetition itself is not compared with what follows
C19_CollapsePairs(tokens, k, cur, w) ==
    IF k > Len(tokens) THEN << cur >>
    ELSE LET next == tokens[k]
             rest == SubSeq(next, Len(w) + 1, Len(next))
             repeated == /\ w # << >>
                         /\ StartsWith(next, w)
                         /\ (rest = << >> \/ ~IsWordChar(rest[1]))
         IN  IF repeated
             THEN C19_CollapsePairs(
                      tokens, k + 1, cur \o rest,
                      IF rest = << >> THEN << >> ELSE C19_TrailingWord(rest))
             ELSE << cur >>
                      \o C19_CollapsePairs(tokens, k + 1, next,
                                           C19_TrailingWord(next))

\* the whitespace-separated tokens of t, each pair of a word and its
\* repetition, taken from left to right, replaced by the word
C19_CollapsedTokens(t) ==
    LET tokens == SplitWS(t)
    IN  IF tokens = << >> THEN << >>
        ELSE C19_CollapsePairs(tokens, 2, tokens[1],
                               C19_TrailingWord(tokens[1]))

C20_Stretched(token, pair) ==
    /\ Len(token) >= 2
    /\ Lower(token[1]) = pair[1]
    /\ \A i \in 2..Len(token) : Lower(token[i]) = pair[2]

\* the tokens end with a filler of the language
C20_EndsWithFiller(tokens, lang) ==
    /\ tokens # << >>
    /\ LET n == Len(tokens)
           last == tokens[n]
           before == IF n > 1 THEN LowerStr(tokens[n - 1]) ELSE << >>
       IN  IF lang = "zh"
           THEN last \in { <<"U55EF">>, <<"U55EF", "U55EF">>, <<"U554A">>,
                           <<"U554A", "U554A">>, <<"U5443">>, <<"U989D">>,
                           <<"U90A3", "U4E2A">>, <<"U8FD9", "U4E2A">>,
                           <<"U5C31", "U662F", "U8BF4">>,
                           <<"U600E", "U4E48", "U8BF4">>,
                           <<"U90A3", "U4EC0", "U4E48">> }
           ELSE \/ C20_Stretched(last, <<"u", "m">>)
                \/ C20_Stretched(last, <<"u", "h">>)
                \/ C20_Stretched(last, <<"e", "r">>)
                \/ LowerStr(last) = <<"w", "e", "l", "l">>
                \/ /\ LowerStr(last) = <<"k", "n", "o", "w">>
                   /\ before = <<"y", "o", "u">>
                \/ /\ LowerStr(last) = <<"m", "e", "a", "n">>
                   /\ before = <<"i">>

\* C20: _remove_filler_words removes only hesitation markers that stand at
\* the end of the sentence as whole tokens: what it returns is the trimmed
\* sentence without some of its last tokens, and a sentence whose last
\* whitespace-delimited token is not a filler of the language (a filler
\* inside the sentence or not) is returned unchanged apart from the
\* trimming.
C20_OnlyTrailingFillerTokensRemoved ==
    pc = "_remove_filler_words" =>
        /\ \E p \in 0..Len(sentence) :
               /\ \/ p = 0
                  \/ p = Len(sentence)
                  \/ IsSpace(sentence[p])
                  \/ IsSpace(sentence[p + 1])
               /\ formatted = Strip(SubSeq(sentence, 1, p))
        /\ ~C20_EndsWithFiller(SplitWS(sentence), language) =>
               formatted = Strip(sentence)

\* the markers the scan of the language is to cut at
C21_Markers(lang) ==
    IF lang = "zh" THEN {ZhSplitWords[k] : k \in 1..Len(ZhSplitWords)}
    ELSE {EnSplitWords[k] : k \in 1..Len(EnSplitWords)}
             \cup { <<"a", "n", "d">> }

\* a marker of the language stands at position p > 0 of s, after a space
\* (in English as a whole word, in either letter case)
C21_MarkerAfterSpace(s, p, lang) ==
    /\ p > 0
    /\ s[p] = " "
    /\ \E w \in C21_Markers(lang) :
           IF lang = "zh" THEN MatchAt(s, w, p)
           ELSE /\ MatchAt(LowerStr(s), w, p)
                /\ (p + Len(w) = Len(s) \/ ~IsWordChar(s[p + Len(w) + 1]))

\* C21: in the marker scan of the two splitters every occurrence of a
\* marker after a space is a cut point, a later occurrence of the marker the
\* cursor stands on included, and a cut is made nowhere else: when the scan
\* has kept candidates, no candidate holds a marker after a space, and a
\* candidate that does not open the text opens with a marker.
C21_EveryMarkerAfterSpaceCuts ==
    (/\ pc = "_split_sentences_improved"
     /\ ~IsBlank(text)
     /\ (IF language = "zh" THEN ZhScan(NormalizeSpaces(text), 0, << >>)
         ELSE EnScan(NormalizeSpaces(text), 0, << >>)) # << >>) =>
        \A k \in 1..Len(candidates) :
            /\ \A p \in 1..Len(candidates[k]) :
                   ~C21_MarkerAfterSpace(candidates[k], p, language)
            /\ \/ StartsWith(NormalizeSpaces(text), candidates[k])
               \/ \E w \in C21_Markers(language) :
                      StartsWith(LowerStr(candidates[k]), w)

RECURSIVE C22_Spans(_, _, _)
\* the trimmed spans the marker scan of t looks at from current_pos on: in
\* each iteration the text from the cursor to the next cut, or to the end
C22_Spans(t, lang, current_pos) ==
    IF ~(current_pos < Len(t)) THEN << >>
    ELSE LET st == IF lang = "zh" THEN ZhScanStep(t, current_pos, << >>)
                   ELSE EnScanStep(t, current_pos, << >>)
         IN  IF st.break
             THEN << Strip(Slice(t, current_pos, Len(t))) >>
             ELSE << Strip(Slice(t, current_pos, st.current_pos)) >>
                      \o C22_Spans(t, lang, st.current_pos)

\* the length the gate of the language measures
C22_Measure(span, lang) ==
    IF lang = "zh" THEN Len(span) ELSE Len(SplitWS(span))

\* C22: a span of the marker scan is discarded exactly when its trimmed
\* length is below the threshold of the language, 6 characters in Chinese
\* and 4 tokens in English: a span of 6 characters or 4 tokens, or more, is
\* among the candidates returned, a shorter one is not.
C22_SpanAtThresholdEmitted ==
    (pc = "_split_sentences_improved" /\ ~IsBlank(text)) =>
        LET spans == C22_Spans(NormalizeSpaces(text), language, 0)
            threshold == IF language = "zh" THEN ZhMinLength ELSE EnMinWords
            Emitted(span) ==
                \E k \in 1..Len(candidates) : candidates[k] = span
        IN  \A j \in 1..Len(spans) :
                IF C22_Measure(spans[j], language) >= threshold
                THEN Emitted(spans[j])
                ELSE Len(spans) > 1 => ~Emitted(spans[j])

\* the positions (from 1) of the commas of s
C23_Commas(s) == {i \in 1..Len(s) : s[i] \in {",", "UFF0C"}}

\* the spans of the marker scan of t that pass the gate of the language
C23_Kept(t, lang) ==
    IF lang = "zh" THEN SelectSeq(C22_Spans(t, lang, 0), ZhKeep)
    ELSE SelectSeq(C22_Spans(t, lang, 0), EnKeep)

\* the trimmed parts of s between its commas, from left to right
C23_CommaParts(s) ==
    LET At(j) == IF j = 0 THEN 0
                 ELSE IF j > Cardinality(C23_Commas(s)) THEN Len(s) + 1
                 ELSE CHOOSE i \in C23_Commas(s) :
                          Cardinality({c \in C23_Commas(s) : c < i}) = j - 1
    IN  [j \in 1..(Cardinality(C23_Commas(s)) + 1) |->
            Strip(SubSeq(s, At(j - 1) + 1, At(j) - 1))]

\* C23 as claimed: a text that holds no marker but a comma between two
\* parts is split on the commas into several candidates, not emitted as
\* one span.
C23_CommaSplitWithoutMarker ==
    (/\ pc = "_split_sentences_improved"
     /\ ~IsBlank(text)
     /\ Len(C22_Spans(NormalizeSpaces(text), language, 0)) = 1
     /\ \E j \in 1..(Len(C23_CommaParts(NormalizeSpaces(text))) - 1) :
            /\ C23_CommaParts(NormalizeSpaces(text))[j] # << >>
            /\ C23_CommaParts(NormalizeSpaces(text))[j + 1] # << >>) =>
        Len(candidates) >= 2

\* C23, amended: the comma split is a fallback of the Chinese splitter for
\* the case that the marker scan kept no candidate, and for that case
\* only: then a text with a comma yields its trimmed comma parts of more
\* than 6 characters.  Whenever the scan kept a candidate (a text without
\* marker that passes the gate is one), the spans it kept are returned as
\* they are, commas included.  The English splitter has no comma split:
\* with no candidate kept it returns the whole trimmed text, or runs of 16
\* words when there are more than 20.
C23_CommaSplitOnlyWithoutCandidates ==
    (pc = "_split_sentences_improved" /\ ~IsBlank(text)) =>
        LET n == NormalizeSpaces(text)
            kept == C23_Kept(n, language)
            words == SplitWS(n)
            Long(part) == Len(part) > 6
        IN  IF kept # << >> THEN candidates = kept
            ELSE IF language = "zh"
            THEN C23_Commas(n) # {} =>
                     candidates = SelectSeq(C23_CommaParts(n), Long)
            ELSE IF Len(words) <= 20 THEN candidates = << n >>
            ELSE /\ Join(candidates, <<" ">>) = n
                 /\ \A k \in 1..(Len(candidates) - 1) :
                        Len(SplitWS(candidates[k])) = 16

\* no span of the text passes the gate, and the two parts around its comma
\* are returned
C23_Witness ==
    /\ pc = "_split_sentences_improved"
    /\ language = "zh"
    /\ text = ZhCommaText
    /\ C23_Kept(text, "zh") = << >>
    /\ Len(candidates) = 2
    /\ candidates[1] \o <<"UFF0C">> \o candidates[2] = text

\* the sentence handed to the k-th call of _add_sentence_punctuation
C24_Input(k) == IF k = 1 THEN sentence ELSE punctuated[k - 1]

\* the exclamation cue of the language: the sentence contains one of the
\* words
C24_ExclamationCue(s, lang) ==
    \E w \in IF lang = "zh"
              THEN { <<"U592A">>, <<"U771F">>, <<"U597D">>, <<"U54C7">>,
                     <<"U554A">>, <<"U591A", "U4E48">>, <<"U975E", "U5E38">> }
              ELSE { <<"s", "o">>, <<"s", "u", "c", "h">>,
                     <<"w", "h", "a", "t", " ", "a">>, <<"w", "o", "w">>,
                     <<"o", "h">>, <<"a", "m", "a", "z", "i", "n", "g">>,
                     <<"w", "o", "n", "d", "e", "r", "f", "u", "l">> } :
        Contains(LowerStr(s), w)

\* the question cue of the language; in English the first word of the
\* sentence is one of seven, or an auxiliary stands between spaces
C24_QuestionCue(s, lang) ==
    IF lang = "zh"
    THEN \E w \in { <<"U4EC0", "U4E48">>, <<"U600E", "U4E48">>,
                    <<"U4E3A", "U4EC0", "U4E48">>, <<"U54EA", "U91CC">>,
                    <<"U54EA", "U4E2A">>, <<"U8C01">>, <<"U51E0">>,
                    <<"U591A", "U5C11">>, <<"U5417">>, <<"U5462">> } :
             Contains(s, w)
    ELSE \/ \E w \in { <<"w", "h", "a", "t">>, <<"h", "o", "w">>,
                       <<"w", "h", "y">>, <<"w", "h", "e", "r", "e">>,
                       <<"w", "h", "o">>, <<"w", "h", "e", "n">>,
                       <<"w", "h", "i", "c", "h">> } :
                C19_LeadingWord(LowerStr(s)) = w
         \/ \E w \in { <<"d", "o">>, <<"d", "o", "e", "s">>,
                       <<"d", "i", "d">>, <<"i", "s">>, <<"a", "r", "e">>,
                       <<"w", "a", "s">>, <<"w", "e", "r", "e">>,
                       <<"c", "a", "n">>, <<"c", "o", "u", "l", "d">>,
                       <<"w", "o", "u", "l", "d">>,
                       <<"s", "h", "o", "u", "l", "d">> } :
                Contains(LowerStr(s), <<" ">> \o w \o <<" ">>)

\* the k-th call was handed a sentence that is not empty after the removal
\* of fillers and ends in no terminal mark, and has returned it with
\* exactly one mark appended: the question mark exactly when the sentence
\* has a question cue, else the exclamation mark exactly when it has an
\* exclamation cue, else the full stop
C24_MarkByFirstMatch(k) ==
    LET stripped == RemoveFillerWords(C24_Input(k), language)
        zh == language = "zh"
        mark == IF C24_QuestionCue(stripped, language)
                THEN IF zh THEN "UFF1F" ELSE "?"
                ELSE IF C24_ExclamationCue(stripped, language)
                THEN IF zh THEN "UFF01" ELSE "!"
                ELSE IF zh THEN "U3002" ELSE "."
    IN  (/\ stripped # << >>
         /\ stripped[Len(stripped)] \notin TerminalMarks(language)) =>
            punctuated[k] = Append(stripped, mark)

\* C24: a sentence that is not empty after the removal of fillers and
\* ends in no terminal mark gets exactly one mark, chosen by first match:
\* the question mark exactly when it has a question cue (in English a first
\* word among what, how, why, where, who, when, which, or an auxiliary
\* between spaces), else the exclamation mark exactly when it has an
\* exclamation cue, else the full stop; with both cues it gets the
\* question mark.
C24_MarkByFirstWord ==
    pc = "_add_sentence_punctuation" =>
        \A k \in 1..Len(punctuated) : C24_MarkByFirstMatch(k)

\* the indices (from 0) of the spaces of n within 5 characters of mid, on
\* either side
C25_SpacesNear(n, mid) ==
    {i \in (mid - 5)..(mid + 5) : i >= 0 /\ i < Len(n) /\ n[i + 1] = " "}

\* C25: in the length fallback of the Chinese splitter (the marker scan
\* kept no candidate and the text has no comma) a text of more than 40
\* characters is split in two at the space nearest to the midpoint index
\* among the spaces within 5 characters on either side of it; a text of 40
\* characters or fewer, or one with no space in that window, is emitted
\* whole.  (The final filter of more than 6 characters is granted.)
C25_SplitAtNearestSpace ==
    (/\ pc = "_split_sentences_improved"
     /\ language = "zh"
     /\ ~IsBlank(text)
     /\ C23_Kept(NormalizeSpaces(text), "zh") = << >>
     /\ C23_Commas(NormalizeSpaces(text)) = {}) =>
        LET n == NormalizeSpaces(text)
            mid == Len(n) \div 2
            near == C25_SpacesNear(n, mid)
            Dist(i) == IF i >= mid THEN i - mid ELSE mid - i
        IN  IF Len(n) > 40 /\ near # {}
            THEN \E i \in near :
                     /\ \A g \in near : Dist(i) <= Dist(g)
                     /\ candidates =
                            SelectSeq(<< Strip(Slice(n, 0, i)),
                                         Strip(Slice(n, i, Len(n))) >>,
                                      ZhKeep)
            ELSE candidates = SelectSeq(<< n >>, ZhKeep)

\* the same with the first space of the window range(mid-5, mid+5), for
\* comparison: this is what the code does
C25_SplitAtFirstSpace ==
    (/\ pc = "_split_sentences_improved"
     /\ language = "zh"
     /\ ~IsBlank(text)
     /\ C23_Kept(NormalizeSpaces(text), "zh") = << >>
     /\ C23_Commas(NormalizeSpaces(text)) = {}) =>
        LET n == NormalizeSpaces(text)
            mid == Len(n) \div 2
            near == C25_SpacesNear(n, mid) \ {mid + 5}
        IN  IF Len(n) > 40 /\ near # {}
            THEN \E i \in near :
                     /\ \A g \in near : i <= g
                     /\ candidates =
                            SelectSeq(<< Strip(Slice(n, 0, i)),
                                         Strip(Slice(n, i, Len(n))) >>,
                                      ZhKeep)
            ELSE candidates = SelectSeq(<< n >>, ZhKeep)

\* C26: for a non-blank text and any title, format_transcript with the
\* language argument 'auto' returns the formatted_text, sentence_count,
\* word_count, language and processing_applied that it returns with the
\* language argument _detect_language(text).
C26_AutoAsDetectedLanguage ==
    (/\ pc = "format_transcript"
     /\ language = "auto"
     /\ ~textIsNone
     /\ ~IsBlank(text)) =>
        LET other == FormatTranscript(text, FALSE, title,
                                      DetectLanguage(text))
        IN  /\ result.formatted_text = other.formatted_text
            /\ result.sentence_count = other.sentence_count
            /\ result.word_count = other.word_count
            /\ result.language = other.language
            /\ result.processing_applied = other.processing_applied

\* the part of C26 that the code keeps: the language it reports
C26_AutoReportsDetectedLanguage ==
    (/\ pc = "format_transcript"
     /\ language = "auto"
     /\ ~textIsNone
     /\ ~IsBlank(text)) =>
        result.language = DetectLanguage(text)

\* C27: the marker scans of _split_chinese_improved and
\* _split_english_improved terminate on every text: in each iteration that
\* does not break the cursor current_pos strictly increases and stays at
\* most len(text), and every scan leaves its loop.
C27_ScanTerminates ==
    /\ [][(pc = "while" /\ pc' = "while") =>
              (cursor' > cursor /\ cursor' <= Len(text))]_vars
    /\ [](pc = "while" => (cursor >= 0 /\ cursor <= Len(text)))
    /\ <>(pc = "scanned")

\* a scan that has moved its cursor and kept a candidate has left its loop
C27_Witness ==
    /\ pc = "scanned"
    /\ cursor > 0
    /\ candidates # << >>
    /\ Len(candidates[1]) < cursor

RECURSIVE C28_LaidOut(_, _, _)
\* the strs of cands stand in n from position from on, one after the
\* other without overlap (each at its leftmost place after the one before)
C28_LaidOut(cands, n, from) ==
    IF cands = << >> THEN TRUE
    ELSE LET p == Find(n, Head(cands), from)
         IN  /\ p # -1
             /\ C28_LaidOut(Tail(cands), n, p + Len(Head(cands)))

\* C28: the candidates returned by _split_sentences_improved are
\* non-empty, pairwise non-overlapping contiguous substrings of the
\* whitespace-collapsed input, listed in left-to-right text order.
C28_CandidatesAreOrderedSubstrings ==
    pc = "_split_sentences_improved" =>
        /\ \A k \in 1..Len(candidates) : candidates[k] # << >>
        /\ C28_LaidOut(candidates, NormalizeSpaces(text), 0)

\* two candidates of a text with runs of whitespace have been returned
C28_Witness ==
    /\ pc = "_split_sentences_improved"
    /\ text = EnSpacedText
    /\ NormalizeSpaces(text) # text
    /\ Len(candidates) = 2
    /\ candidates[1] \o <<" ">> \o candidates[2] = NormalizeSpaces(text)

\* C29: _clean_text is idempotent, _clean_text(_clean_text(t)) =
\* _clean_text(t) for every text t, so that its output holds no token
\* immediately followed by an identical token (the pattern of the repeated
\* word matches nowhere in it).
C29_CleanTextIdempotent ==
    pc = "_clean_text" =>
        /\ CleanText(formatted) = formatted
        /\ \A p \in 0..Len(formatted) : RepeatedWordEnd(formatted, p) = -1

\* the value of the decimal digit c
C30_Digit(c) == CHOOSE d \in 0..9 : DigitChars[d + 1] = c

\* the seconds that the timestamp "[HH:MM:SS]" at the head of line shows
C30_Shown(line) ==
    3600 * (10 * C30_Digit(line[2]) + C30_Digit(line[3]))
        + 60 * (10 * C30_Digit(line[5]) + C30_Digit(line[6]))
        + 10 * C30_Digit(line[8]) + C30_Digit(line[9])

\* the segments are ordered by start time, do not overlap and have
\* non-negative durations
C30_Ordered(segs) ==
    \A n \in 1..Len(segs) :
        /\ segs[n].end >= segs[n].start
        /\ n < Len(segs) => segs[n].end <= segs[n + 1].start

\* C30: in format_transcript_with_timestamps, when the segments are
\* ordered by start time, do not overlap and have non-negative durations,
\* the timestamps of the lines of timestamped_text do not decrease from
\* the first line to the last, across segment boundaries as well as within
\* a segment.
C30_TimestampsNonDecreasing ==
    (/\ pc = "format_transcript_with_timestamps"
     /\ ~IsBlank(text)
     /\ C30_Ordered(segments)) =>
        /\ result.timestamped_text
               = Join([j \in 1..Len(stamped) |-> stamped[j].line], <<"\n">>)
        /\ \A j \in 1..(Len(stamped) - 1) :
               C30_Shown(stamped[j].line) <= C30_Shown(stamped[j + 1].line)

\* two ordered segments have given three lines: the second line is in the
\* first segment and later than the first, the third is in the second
\* segment and later than the second
C30_Witness ==
    /\ pc = "format_transcript_with_timestamps"
    /\ Len(segments) = 2
    /\ C30_Ordered(segments)
    /\ Len(stamped) >= 3
    /\ stamped[1].segment = 1
    /\ stamped[2].segment = 1
    /\ stamped[3].segment = 2
    /\ C30_Shown(stamped[1].line) < C30_Shown(stamped[2].line)
    /\ C30_Shown(stamped[2].line) < C30_Shown(stamped[3].line)

====
